---- MODULE Spec2Model ----
(***************************************************************************)
(* Model of two test-support facilities of manila:                         *)
(*   - manila/tests/db/migrations/alembic/migrations_data_checks.py        *)
(*     (registry of per-migration check objects, reflective dispatch)      *)
(*   - contrib/tempest/tempest/api/share/base.py                           *)
(*     (resource creation helpers and LIFO cleanup lists)                  *)
(*                                                                         *)
(* Strings that the code splits on '_' are modelled as sequences of        *)
(* tokens: the token "_" is the underscore character, every other token    *)
(* is a maximal run of non-underscore characters.                          *)
(***************************************************************************)
EXTENDS Integers, Sequences, FiniteSets, TLC

VARIABLES
    migration_mappings, \* DbMigrationsData.migration_mappings: revision -> instance (0: no key)
    objs,               \* every check object ever constructed, by instance number
    uuid_cnt,           \* number of uuids handed out by uuidutils.generate_uuid
    db,                 \* rows seeded into the database by setup_upgrade_data
    ret,                \* outcome of the most recent DbMigrationsData.__getattr__
    last_call,          \* the lifecycle call made through the bound method in ret, if any
    drv,                \* Migration Driver: run, test context, position, step
    trace,              \* Migration Driver: events of the current run, in order
    conf,               \* CONF.share options read by BaseSharesTest
    class_resources,    \* BaseSharesTest.class_resources
    method_resources,   \* BaseSharesTest.method_resources
    exists,             \* ids of the resources that exist in the backend
    created,            \* for each resource made so far, the list it was put on
    clr,                \* the clear_resources call in progress, or the last one
    del_log,            \* delete requests issued by that call, in order
    cs,                 \* the create_shares call: its arguments, locals and outcome
    lock,               \* holder of the "service_vm" lock of provide_share_network
    backend,            \* networks and share networks of the tenant
    workers,            \* each worker's call of provide_share_network
    engine,             \* the database a check class works on: columns, rows, statements
    run,                \* the migration under test: revision, step, outcome of the check
    td                  \* a test class's run: cleanups registered, isolated creds, events

vars == <<migration_mappings, objs, uuid_cnt, db, ret, last_call, drv, trace,
          conf, class_resources, method_resources, exists, created, clr, del_log,
          cs, lock, backend, workers, engine, run, td>>

resVars == <<conf, class_resources, method_resources, exists, created, clr, del_log>>

migVars == <<migration_mappings, objs, uuid_cnt, db, ret, last_call, drv, trace>>

regVars == <<migration_mappings, objs, uuid_cnt, db, ret, last_call>>

sharesVars == <<cs>>

netVars == <<lock, backend, workers>>

chkVars == <<engine, run>>

tdVars == <<td>>

otherVars == <<sharesVars, netVars, chkVars, tdVars>>

nonChkVars == <<resVars, migVars, sharesVars, netVars, tdVars>>

-----------------------------------------------------------------------------
(* Bounds *)

MaxInst == 2

MaxCalls == 1

MaxRuns == 2

MaxRes == 2

MaxEntries == 2

MaxRetry == 1

MaxWorkers == 2

-----------------------------------------------------------------------------
(* Names *)

None == "None"

\* None where an id is expected: of a network, a subnet, a share network, and
\* of the holder of the lock
NoId == 0

\* a share network id that a client already carries
PresetId == 9

TestContexts == {"T1", "T2"}

Rev_293fac1130ca == <<"293fac1130ca">>

Rev_1f0bd302c1a6 == <<"1f0bd302c1a6">>

Revisions == {Rev_293fac1130ca, Rev_1f0bd302c1a6}

AvailabilityZoneMigrationChecks == "AvailabilityZoneMigrationChecks"

ShareReplicationMigrationChecks == "ShareReplicationMigrationChecks"

Classes == {AvailabilityZoneMigrationChecks, ShareReplicationMigrationChecks}

\* the @map_to_migration(revision) class ... statements of the module
Decorated ==
    { [revision |-> Rev_1f0bd302c1a6, cls |-> AvailabilityZoneMigrationChecks],
      [revision |-> Rev_293fac1130ca, cls |-> ShareReplicationMigrationChecks] }

Phases == {"pre", "check", "post"}

LifecycleMethods == {"setup_upgrade_data", "check_upgrade", "check_downgrade"}

methods_mapping_swapped(phase) ==
    CASE phase = "pre" -> "setup_upgrade_data"
      [] phase = "check" -> "check_downgrade"
      [] phase = "post" -> "check_upgrade"

methods_mapping(phase) ==
    CASE phase = "pre" -> "setup_upgrade_data"
      [] phase = "check" -> "check_upgrade"
      [] phase = "post" -> "check_downgrade"

-----------------------------------------------------------------------------
(* str.split('_') *)

RECURSIVE SplitFrom(_, _, _)
SplitFrom(s, cur, acc) ==
    IF s = <<>> THEN Append(acc, cur)
    ELSE IF Head(s) = "_" THEN SplitFrom(Tail(s), <<>>, Append(acc, cur))
    ELSE SplitFrom(Tail(s), Append(cur, Head(s)), acc)

Split(item) == SplitFrom(item, <<>>, <<>>)

-----------------------------------------------------------------------------
(* Attribute names asked of a DbMigrationsData instance *)

PreUpgradeName(rev) == <<"_", "pre", "_", "upgrade", "_">> \o rev

CheckName(rev) == <<"_", "check", "_">> \o rev

PostDowngradeName(rev) == <<"_", "post", "_", "downgrade", "_">> \o rev

DriverItem(phase, rev) ==
    CASE phase = "pre" -> PreUpgradeName(rev)
      [] phase = "check" -> CheckName(rev)
      [] phase = "post" -> PostDowngradeName(rev)

\* names that are not dispatch requests
OtherItems ==
    { <<"migration_mappings">>,            \* an attribute of the class
      <<"_", "pre">>,                      \* '_pre': two parts only
      <<"pre", "_", "upgrade", "_">> \o Rev_1f0bd302c1a6,   \* no leading '_'
      <<"_", "walk", "_">> \o Rev_1f0bd302c1a6 }            \* unknown phase

Items == {DriverItem(ph, rev) : ph \in Phases, rev \in Revisions} \cup OtherItems

\* attributes that normal lookup finds on DbMigrationsData
ClassAttributes == { <<"migration_mappings">>, <<"methods_mapping">> }

-----------------------------------------------------------------------------
(* State after the definitions of the module have been executed, before    *)
(* any @map_to_migration decorator has run                                 *)

NoRet == [kind |-> "none", obj |-> 0, name |-> None, by |-> None, key |-> <<>>]

\* value of read_ids when the method does not read self.valid_share_ids
NoRead == <<"<not read>">>

NoCall == [obj |-> 0, name |-> None, by |-> None, reporter |-> None,
           read_ids |-> NoRead, read_stored |-> FALSE]

EmptyDb == [shares |-> {}, share_instances |-> {}, services |-> <<>>]

IdleDriver == [run |-> 0, T |-> None, pos |-> 0, step |-> "idle", sub |-> "idle"]

\* CONF.share: the options read by the code, the retry number within retries
ConfValues(retries, multitenancy) ==
    [suppress_errors_in_cleanup : BOOLEAN, share_creation_retry_number : retries,
     multitenancy_enabled : multitenancy]

IdleCreateShares == [status |-> "idle"]

IdleWorker ==
    [pc |-> "idle", client |-> NoId, net_id |-> NoId, subnet_id |-> NoId,
     share_network_id |-> NoId, result |-> NoId]

EmptyEngine == [cols |-> <<>>, rows |-> <<>>, length |-> "36", log |-> <<>>]

FreshRun == [rev |-> "None", step |-> "fresh", on |-> "None", outcome |-> "None",
             valid_share_ids |-> <<>>]

\* class_isolated_creds = [], method_isolated_creds = []; no test has
\* started and nothing is registered with addCleanup
NoTest == [phase |-> "class", cleanups |-> <<>>, method_isolated_creds |-> <<>>,
           class_isolated_creds |-> <<>>, log |-> <<>>]

InitWith(confs, previous) ==
    /\ migration_mappings = [r \in {} |-> 0]
    /\ objs = <<>>
    /\ uuid_cnt = 0
    /\ db = EmptyDb
    /\ ret = NoRet
    /\ last_call = NoCall
    /\ drv = IdleDriver
    /\ trace = <<>>
    /\ conf \in confs
    /\ class_resources = <<>>
    /\ method_resources = <<>>
    /\ exists = {}
    /\ created = <<>>
    /\ clr = [list |-> None, idx |-> 0, status |-> "idle"]
    /\ del_log = <<>>
    /\ cs = IdleCreateShares
    /\ lock = NoId
    /\ \E b \in previous :
          backend = [networks |-> b.networks, share_networks |-> b.share_networks,
                     created_networks |-> 0, created_share_networks |-> 0]
    /\ workers = [w \in 1..MaxWorkers |-> IdleWorker]
    /\ engine = EmptyEngine
    /\ run = FreshRun
    /\ td = NoTest

\* no share is created a second time unless the configuration says so
Init == InitWith(ConfValues({0}, {TRUE}), {[networks |-> <<>>, share_networks |-> <<>>]})

-----------------------------------------------------------------------------
(* BaseMigrationChecks *)

\* valid_share_ids of an instance that has no such instance attribute
NoAttr == <<"<class attribute>">>

BaseMigrationChecks_init(cls, revision) ==
    [cls |-> cls, test_case |-> None, valid_share_ids |-> NoAttr,
     revision |-> revision]   \* revision: the decorator call that made it (history)

set_test_case_keep(obj, test_case) == obj

set_test_case(obj, test_case) == [obj EXCEPT !.test_case = test_case]

-----------------------------------------------------------------------------
(* map_to_migration(revision)(cls) *)

DictSetDefault(d, k, v) ==
    [x \in (DOMAIN d) \cup {k} |-> IF x \in DOMAIN d THEN d[x] ELSE v]

\* d[k] = v
DictSet(d, k, v) == [x \in (DOMAIN d) \cup {k} |-> IF x = k THEN v ELSE d[x]]

DictGetAny(d, k, default) ==
    IF DOMAIN d = {} THEN default ELSE d[CHOOSE x \in DOMAIN d : TRUE]

\* d.get(k, default)
DictGet(d, k, default) == IF k \in DOMAIN d THEN d[k] ELSE default

map_to_migration(revision, cls) ==
    /\ Len(objs) < MaxInst
    /\ objs' = Append(objs, BaseMigrationChecks_init(cls, revision))
    /\ migration_mappings' = DictSet(migration_mappings, revision, Len(objs) + 1)
    /\ UNCHANGED <<uuid_cnt, db, ret, last_call>>

-----------------------------------------------------------------------------
(* DbMigrationsData.__getattr__(self, item) *)

is_mapping_method_any_phase(parts) ==
    /\ Len(parts) > 2
    /\ parts[1] = <<>>

is_mapping_method(parts) ==
    /\ Len(parts) > 2
    /\ parts[1] = <<>>
    /\ \E ph \in Phases : parts[2] = <<ph>>

Raised_returns_none(key) ==
    [kind |-> "returned None", obj |-> 0, name |-> None, by |-> None, key |-> key]

\* raise AttributeError
Raised(key) ==
    [kind |-> "AttributeError", obj |-> 0, name |-> None, by |-> None, key |-> key]

\* super().__getattribute__(item): the class attribute, or AttributeError
NormalLookup(item) ==
    IF item \in ClassAttributes
    THEN [kind |-> "attribute", obj |-> 0, name |-> None, by |-> None, key |-> item]
    ELSE Raised(item)

\* lines 72-74: bind the test case into the registered instance and return
\* its method for the phase
BoundMethod_new_instance(check_obj, self, parts) ==
    /\ objs' = Append(objs, set_test_case(
                   BaseMigrationChecks_init(objs[check_obj].cls,
                                            objs[check_obj].revision), self))
    /\ ret' = [kind |-> "method", obj |-> Len(objs) + 1,
               name |-> methods_mapping(parts[2][1]),
               by |-> self, key |-> parts[Len(parts)]]

BoundMethod_binds_all(check_obj, self, parts) ==
    /\ objs' = [o \in DOMAIN objs |-> set_test_case(objs[o], self)]
    /\ ret' = [kind |-> "method", obj |-> check_obj,
               name |-> methods_mapping(parts[2][1]),
               by |-> self, key |-> parts[Len(parts)]]

BoundMethod(check_obj, self, parts) ==
    /\ objs' = [objs EXCEPT ![check_obj] = set_test_case(@, self)]
    /\ ret' = [kind |-> "method", obj |-> check_obj,
               name |-> methods_mapping(parts[2][1]),
               by |-> self, key |-> parts[Len(parts)]]

Getattr(self, item) ==
    LET parts == Split(item)
        key == parts[Len(parts)]
        check_obj == DictGet(migration_mappings, key, 0)
    IN  /\ IF ~is_mapping_method(parts)
           THEN /\ ret' = NormalLookup(item)
                /\ UNCHANGED objs
           ELSE IF check_obj = 0
           THEN /\ ret' = Raised(key)
                /\ UNCHANGED objs
           ELSE BoundMethod(check_obj, self, parts)
        /\ last_call' = NoCall
        /\ UNCHANGED <<migration_mappings, uuid_cnt, db>>

-----------------------------------------------------------------------------
(* The lifecycle operations of the check objects, called through the bound *)
(* method that __getattr__ returned                                        *)

\* ids made by ShareReplicationMigrationChecks.setup_upgrade_data: for each
\* display name a share id (_new_share), then an instance id (_new_instance)
NewShareIds == <<uuid_cnt + 1, uuid_cnt + 3, uuid_cnt + 5>>

NewInstanceIds == <<uuid_cnt + 2, uuid_cnt + 4, uuid_cnt + 6>>

valid_share_display_names == <<"FAKE_SHARE_1", "FAKE_SHARE_2", "FAKE_SHARE_3">>

service_fixture ==
    << [host |-> "fake1", availability_zone |-> "az1", deleted |-> 0],
       [host |-> "fake2", availability_zone |-> "az1", deleted |-> 0],
       [host |-> "fake3", availability_zone |-> "az2", deleted |-> 1] >>

SeedsDone == uuid_cnt \div 6 + Len(db.services) \div 3

\* the value self.valid_share_ids evaluates to
ReadValidShareIds(obj) ==
    IF obj.valid_share_ids = NoAttr THEN <<>> ELSE obj.valid_share_ids

ShareReplication_setup_upgrade_data(obj) ==
    [obj EXCEPT !.valid_share_ids = NewShareIds]

setup_upgrade_data(o) ==
    /\ IF objs[o].cls = ShareReplicationMigrationChecks
       THEN /\ objs' = [objs EXCEPT ![o] = ShareReplication_setup_upgrade_data(@)]
            /\ uuid_cnt' = uuid_cnt + 6
            /\ db' = [db EXCEPT
                 !.shares = @ \cup
                    { [id |-> NewShareIds[i],
                       display_name |-> valid_share_display_names[i]] : i \in 1..3 },
                 !.share_instances = @ \cup
                    { [id |-> NewInstanceIds[i], share_id |-> NewShareIds[i]] : i \in 1..3 }]
       ELSE /\ db' = [db EXCEPT !.services = @ \o service_fixture]
            /\ UNCHANGED <<objs, uuid_cnt>>
    /\ last_call' = [obj |-> o, name |-> "setup_upgrade_data", by |-> ret.by,
                     reporter |-> objs[o].test_case,
                     read_ids |-> NoRead, read_stored |-> FALSE]

ShareReplication_check_reset_ids(obj) == [obj EXCEPT !.valid_share_ids = <<>>]

\* ShareReplicationMigrationChecks.check_upgrade and check_downgrade assign
\* no attribute of self
ShareReplication_check(obj) == obj

\* check_upgrade and check_downgrade: select rows and assert through
\* self.test_case; ShareReplicationMigrationChecks reads self.valid_share_ids
check(o, name) ==
    /\ last_call' = [obj |-> o, name |-> name, by |-> ret.by,
                     reporter |-> objs[o].test_case,
                     read_ids |-> IF objs[o].cls = ShareReplicationMigrationChecks
                                  THEN ReadValidShareIds(objs[o]) ELSE NoRead,
                     read_stored |-> /\ objs[o].cls = ShareReplicationMigrationChecks
                                     /\ objs[o].valid_share_ids # NoAttr]
    /\ objs' = [objs EXCEPT ![o] = IF @.cls = ShareReplicationMigrationChecks
                                   THEN ShareReplication_check(@) ELSE @]
    /\ UNCHANGED <<uuid_cnt, db>>

Call ==
    /\ ret.kind = "method"
    /\ last_call = NoCall
    /\ IF ret.name = "setup_upgrade_data"
       THEN setup_upgrade_data(ret.obj)
       ELSE check(ret.obj, ret.name)
    /\ UNCHANGED <<migration_mappings, ret>>

-----------------------------------------------------------------------------
(* Any test context asks for any name, and calls what it got *)

Register == \E d \in Decorated :
    map_to_migration(d.revision, d.cls) /\ UNCHANGED <<drv, trace, resVars, otherVars>>

Dispatch == \E self \in TestContexts, item \in Items :
    Getattr(self, item) /\ UNCHANGED <<drv, trace, resVars, otherVars>>

Invoke ==
    /\ ret.name = "setup_upgrade_data" => SeedsDone < MaxCalls
    /\ Call
    /\ UNCHANGED <<drv, trace, resVars, otherVars>>

Next == Register \/ Dispatch \/ Invoke

Spec == Init /\ [][Next]_vars

-----------------------------------------------------------------------------
(* An identifier that contains '_': map_to_migration takes any string      *)

Rev_with_underscore == Rev_1f0bd302c1a6 \o <<"_">> \o Rev_293fac1130ca

RegisterUnderscore ==
    /\ map_to_migration(Rev_with_underscore, AvailabilityZoneMigrationChecks)
    /\ UNCHANGED <<drv, trace, resVars, otherVars>>

\* the names the driver would ask for that identifier
DispatchUnderscore == \E self \in TestContexts, ph \in Phases :
    Getattr(self, DriverItem(ph, Rev_with_underscore))
        /\ UNCHANGED <<drv, trace, resVars, otherVars>>

NextNames == Register \/ RegisterUnderscore \/ Dispatch \/ DispatchUnderscore

SpecNames == Init /\ [][NextNames]_vars

-----------------------------------------------------------------------------
(* Migration Driver: for each migration in sequence it asks for the seed   *)
(* operation and calls it, performs the upgrade, asks for and calls the    *)
(* upgrade check, performs the downgrade, asks for and calls the downgrade *)
(* check. A name that is not found is skipped. Registration happens when   *)
(* the module is loaded, before the first run.                             *)

MigrationOrder == <<Rev_1f0bd302c1a6, Rev_293fac1130ca>>

DriverSteps == <<"seed", "upgrade", "verify_upgrade", "downgrade", "verify_downgrade">>

PhaseOfStep(step) ==
    CASE step = "seed" -> "pre"
      [] step = "verify_upgrade" -> "check"
      [] step = "verify_downgrade" -> "post"

StepAfter(step) ==
    CASE step = "seed" -> "upgrade"
      [] step = "upgrade" -> "verify_upgrade"
      [] step = "verify_upgrade" -> "downgrade"
      [] step = "downgrade" -> "verify_downgrade"
      [] step = "verify_downgrade" -> "next"

CurrentRevision == MigrationOrder[drv.pos]

RegisterAtLoad ==
    /\ drv = IdleDriver
    /\ \E d \in Decorated : map_to_migration(d.revision, d.cls)
    /\ UNCHANGED <<drv, trace, resVars, otherVars>>

DriverStart(T) ==
    /\ drv.step = "idle"
    /\ drv.run < MaxRuns
    /\ drv' = [run |-> drv.run + 1, T |-> T, pos |-> 1, step |-> "seed", sub |-> "lookup"]
    /\ trace' = <<>>
    /\ UNCHANGED <<regVars, resVars, otherVars>>

\* getattr(test, name, None)
DriverLookup ==
    /\ drv.step \in {"seed", "verify_upgrade", "verify_downgrade"}
    /\ drv.sub = "lookup"
    /\ Getattr(drv.T, DriverItem(PhaseOfStep(drv.step), CurrentRevision))
    /\ drv' = [drv EXCEPT !.sub = IF ret'.kind = "method" THEN "call" ELSE "skip"]
    /\ UNCHANGED <<trace, resVars, otherVars>>

DriverCall ==
    /\ drv.sub = "call"
    /\ Call
    /\ trace' = Append(trace, [rev |-> CurrentRevision, ev |-> ret.name])
    /\ drv' = [drv EXCEPT !.step = StepAfter(drv.step), !.sub = "lookup"]
    /\ UNCHANGED <<resVars, otherVars>>

DriverSkip ==
    /\ drv.sub = "skip"
    /\ drv' = [drv EXCEPT !.step = StepAfter(drv.step), !.sub = "lookup"]
    /\ UNCHANGED <<regVars, trace, resVars, otherVars>>

\* the upgrade and the downgrade of the migration itself
DriverMigrate ==
    /\ drv.step \in {"upgrade", "downgrade"}
    /\ trace' = Append(trace, [rev |-> CurrentRevision, ev |-> drv.step])
    /\ drv' = [drv EXCEPT !.step = StepAfter(drv.step)]
    /\ UNCHANGED <<regVars, resVars, otherVars>>

DriverNextMigration ==
    /\ drv.step = "next"
    /\ drv' = IF drv.pos < Len(MigrationOrder)
              THEN [drv EXCEPT !.pos = drv.pos + 1, !.step = "seed", !.sub = "lookup"]
              ELSE [drv EXCEPT !.pos = 0, !.step = "idle", !.sub = "idle"]
    /\ UNCHANGED <<regVars, trace, resVars, otherVars>>

NextDriver ==
    \/ RegisterAtLoad
    \/ \E T \in TestContexts : DriverStart(T)
    \/ DriverLookup
    \/ DriverCall
    \/ DriverSkip
    \/ DriverMigrate
    \/ DriverNextMigration

SpecDriver == Init /\ [][NextDriver]_vars

-----------------------------------------------------------------------------
(* BaseSharesTest: creation helpers and cleanup lists.                     *)
(* A resource id is the number of the creation that made it, so ids order  *)
(* the resources by creation time.                                         *)

\* clear_resources compares res["type"] to these literals with "is"; the
\* helpers build the dicts from the same identifier-like literals, which the
\* interpreter interns, so the comparison is modelled as equality
ResourceTypes == {"share", "snapshot", "share_network", "security_service", "volume_type"}

shares_client == "shares_client"

\* the dict that a creation helper puts on a cleanup list: no "deleted" key
Resource(type, id, client) ==
    [type |-> type, id |-> id, client |-> client, deleted |-> "no key"]

ListAppend(list, resource) == Append(list, resource)

\* list.insert(0, resource)
ListInsert0(list, resource) == <<resource>> \o list

\* a client with isolated credentials, passed as client=...
isolated_client == "isolated_client"

\* client = client or cls.shares_client
ClientOrDefault(client) == IF client = None THEN shares_client ELSE client

CleanupList_always_class(cleanup_in_class) == "class"

CleanupList_always_method(cleanup_in_class) == "method"

\* cls.class_resources if cleanup_in_class else cls.method_resources
CleanupList(cleanup_in_class) == IF cleanup_in_class THEN "class" ELSE "method"

\* client.create_<type>(...) succeeded with a new id; the resource is put on
\* the class list if cleanup_in_class, on the method list otherwise
create_resource(type, client, cleanup_in_class) ==
    LET id == Len(created) + 1
        resource == Resource(type, id, ClientOrDefault(client))
    IN  /\ exists' = exists \cup {id}
        /\ created' = Append(created, IF cleanup_in_class THEN "class" ELSE "method")
        /\ IF CleanupList(cleanup_in_class) = "class"
           THEN /\ class_resources' = ListInsert0(class_resources, resource)
                /\ UNCHANGED method_resources
           ELSE /\ method_resources' = ListInsert0(method_resources, resource)
                /\ UNCHANGED class_resources

\* a creation helper called by a test while no cleanup is running
call_create(type, client, cleanup_in_class) ==
    /\ clr.status # "running"
    /\ Len(created) < MaxRes
    /\ create_resource(type, client, cleanup_in_class)
    /\ UNCHANGED <<conf, clr, del_log, migVars, otherVars>>

create_share(client, cleanup_in_class) ==
    call_create("share", client, cleanup_in_class)

create_snapshot_wait_for_active(client, cleanup_in_class) ==
    call_create("snapshot", client, cleanup_in_class)

create_share_network(client, cleanup_in_class) ==
    call_create("share_network", client, cleanup_in_class)

create_security_service(client, cleanup_in_class) ==
    call_create("security_service", client, cleanup_in_class)

create_volume_type(client, cleanup_in_class) ==
    call_create("volume_type", client, cleanup_in_class)

\* the test deletes one of its resources itself
DeleteInTest(id) ==
    /\ clr.status # "running"
    /\ id \in exists
    /\ exists' = exists \ {id}
    /\ UNCHANGED <<conf, class_resources, method_resources, created, clr, del_log, migVars, otherVars>>

-----------------------------------------------------------------------------
(* BaseSharesTest.clear_resources(resources): one step per list entry *)

ListOf(name) == IF name = "class" THEN class_resources ELSE method_resources

\* tearDownClass passes class_resources; the cleanup registered by setUp
\* passes nothing and gets method_resources
ClearStart(name) ==
    /\ clr.status # "running"
    /\ clr' = [list |-> name, idx |-> 1, status |-> "running"]
    /\ del_log' = <<>>
    /\ UNCHANGED <<conf, class_resources, method_resources, exists, created, migVars, otherVars>>

\* what the try block can end in for a resource: delete_<type> raises, or it
\* returns and wait_for_resource_deletion returns or raises
\* (exc: the exception that ended it; gone: whether the resource is gone)
Attempts(id) ==
    IF id \notin exists
    THEN { [exc |-> e, gone |-> TRUE] : e \in {"NotFound", "Unauthorized"} }
    ELSE \* delete_<type> raises
         { [exc |-> e, gone |-> FALSE] : e \in {"Unauthorized", "Exception"} }
         \* wait_for_resource_deletion returns, or sees the resource gone
         \cup { [exc |-> e, gone |-> TRUE] : e \in {"none", "NotFound"} }
         \* wait_for_resource_deletion raises while the backend is deleting
         \cup { [exc |-> e, gone |-> g] :
                    e \in {"Unauthorized", "Exception"}, g \in BOOLEAN }

Passed_only_not_found(exc) == exc \in {"none", "NotFound"}

\* the try block ended without exception, or in one of the two except
\* clauses that pass
Passed(exc) == exc \in {"none", "NotFound", "Unauthorized"}

Reraised_when_suppressed(exc) == ~Passed(exc) /\ conf.suppress_errors_in_cleanup

\* except Exception: raise e unless CONF.share.suppress_errors_in_cleanup
Reraised(exc) == ~Passed(exc) /\ ~conf.suppress_errors_in_cleanup

\* LOG.error("Suppressed cleanup error: ...")
Logged(exc) == ~Passed(exc) /\ ~Reraised(exc)

WithDeletedKey_reset(res) == [res EXCEPT !.deleted = "False"]

\* if "deleted" not in res.keys(): res["deleted"] = False
WithDeletedKey(res) ==
    IF res.deleted = "no key" THEN [res EXCEPT !.deleted = "False"] ELSE res

NeedsDelete_always(res) == TRUE

\* if not(res["deleted"]):
NeedsDelete(res) == res.deleted # "True"

MarkDeleted_forgotten(res) == res

\* res["deleted"] = True
MarkDeleted(res) == [res EXCEPT !.deleted = "True"]

SetEntry(name, i, entry) ==
    IF name = "class"
    THEN /\ class_resources' = [class_resources EXCEPT ![i] = entry]
         /\ UNCHANGED method_resources
    ELSE /\ method_resources' = [method_resources EXCEPT ![i] = entry]
         /\ UNCHANGED class_resources

ClearStep ==
    /\ clr.status = "running"
    /\ clr.idx <= Len(ListOf(clr.list))
    /\ LET res == ListOf(clr.list)[clr.idx]
           res1 == WithDeletedKey(res)
       IN  IF ~NeedsDelete(res1)
           THEN /\ clr' = [clr EXCEPT !.idx = @ + 1]
                /\ UNCHANGED <<class_resources, method_resources, exists, del_log>>
           ELSE \E a \in Attempts(res.id) :
                /\ res.type \in ResourceTypes
                /\ del_log' = Append(del_log, [id |-> res.id, exc |-> a.exc,
                                               logged |-> Logged(a.exc)])
                /\ exists' = IF a.gone THEN exists \ {res.id} ELSE exists
                /\ IF Reraised(a.exc)
                   THEN /\ SetEntry(clr.list, clr.idx, res1)
                        /\ clr' = [clr EXCEPT !.status = "raised"]
                   ELSE /\ SetEntry(clr.list, clr.idx, MarkDeleted(res1))
                        /\ clr' = [clr EXCEPT !.idx = @ + 1]
    /\ UNCHANGED <<conf, created, migVars, otherVars>>

ClearReturn ==
    /\ clr.status = "running"
    /\ clr.idx > Len(ListOf(clr.list))
    /\ clr' = [clr EXCEPT !.status = "returned"]
    /\ UNCHANGED <<conf, class_resources, method_resources, exists, created, del_log, migVars, otherVars>>

NextCleanup ==
    \/ \E c \in BOOLEAN : create_share(None, c)
    \/ \E c \in BOOLEAN : create_snapshot_wait_for_active(None, c)
    \/ \E c \in BOOLEAN : create_share_network(None, c)
    \/ \E c \in BOOLEAN : create_security_service(None, c)
    \/ \E c \in BOOLEAN : create_volume_type(None, c)
    \/ \E id \in exists : DeleteInTest(id)
    \/ \E name \in {"class", "method"} : ClearStart(name)
    \/ ClearStep
    \/ ClearReturn

SpecCleanup == Init /\ [][NextCleanup]_vars

\* the creation helpers alone, called with and without client=...
ClientArgs == {None, isolated_client}

NextCreate ==
    \/ \E cl \in ClientArgs, c \in BOOLEAN : create_share(cl, c)
    \/ \E cl \in ClientArgs, c \in BOOLEAN : create_snapshot_wait_for_active(cl, c)
    \/ \E cl \in ClientArgs, c \in BOOLEAN : create_share_network(cl, c)
    \/ \E cl \in ClientArgs, c \in BOOLEAN : create_security_service(cl, c)
    \/ \E cl \in ClientArgs, c \in BOOLEAN : create_volume_type(cl, c)

SpecCreate == Init /\ [][NextCreate]_vars

-----------------------------------------------------------------------------
(* BaseSharesTest.create_shares *)

\* an element of share_data_list that is not a dict
NotDict == [dict |-> FALSE, keys |-> {}, cleanup_in_class |-> TRUE]

\* the other elements, each given by the keys of the dict and by the
\* cleanup_in_class that its kwargs pass to _create_share (True when absent)
DictEntries ==
    {[dict |-> TRUE, keys |-> ks, cleanup_in_class |-> TRUE] :
        ks \in {{}, {"args", "kwargs"}, {"args", "kwargs", "other"}}}
    \cup {[dict |-> TRUE, keys |-> {"args", "kwargs"}, cleanup_in_class |-> FALSE]}

ShareDataLists ==
    UNION {[1..n -> {NotDict} \cup DictEntries] : n \in 0..MaxEntries}

\* d["args"] and d["kwargs"] are supplied when absent
WithDefaults(d) == d.keys \cup {"args", "kwargs"}

TooManyKeys_never(d) == FALSE

\* len(d) > 2
TooManyKeys(d) == Cardinality(WithDefaults(d)) > 2

ShareBuildErrorException == "ShareBuildErrorException"

TimeoutException == "TimeoutException"

\* what wait_for_share_status(id, "available") and create_share can end in
BuildFailures == {ShareBuildErrorException, TimeoutException}

WaitOutcomes == {"available", "Exception"} \cup BuildFailures

CreateOutcomes == {"created", "Exception"}

InitShares ==
    InitWith(ConfValues(0..MaxRetry, {TRUE}), {[networks |-> <<>>, share_networks |-> <<>>]})

create_shares_call(share_data_list, with_resp) ==
    /\ cs.status = "idle"
    /\ cs' = [status |-> "creating", share_data_list |-> share_data_list,
              with_resp |-> with_resp, data |-> <<>>, i |-> 1,
              requests |-> [k \in 1..Len(share_data_list) |-> 0],
              waits |-> [k \in 1..Len(share_data_list) |-> 0], rounds |-> 0,
              waited |-> {}, exc |-> None, result |-> None]
    /\ UNCHANGED <<resVars, migVars, netVars, chkVars, tdVars>>

Raise(exc) == [cs EXCEPT !.status = "raised", !.exc = exc]

\* cls._create_share(*d["args"], **d["kwargs"]) for the element at cs.i, with
\* the default client and the cleanup_in_class of its kwargs; next is the
\* state of the call once the share is made, failed its state when the
\* request raises
CreateShareThen(outcome, next, failed) ==
    IF outcome = "created"
    THEN /\ create_resource("share", shares_client,
                            cs.share_data_list[cs.i].cleanup_in_class)
         /\ cs' = [next EXCEPT !.requests[cs.i] = @ + 1]
         /\ UNCHANGED <<conf, clr, del_log, migVars, netVars, chkVars, tdVars>>
    ELSE /\ cs' = [failed EXCEPT !.requests[cs.i] = @ + 1,
                                 !.status = "raised", !.exc = outcome]
         /\ UNCHANGED <<resVars, migVars, netVars, chkVars, tdVars>>

\* the id the next create_share request gives
NextId == Len(created) + 1

\* first loop: one element of the list is checked and its share requested
CreateSharesEntry ==
    /\ cs.status = "creating"
    /\ cs.i <= Len(cs.share_data_list)
    /\ LET d == cs.share_data_list[cs.i]
       IN  IF ~d.dict \/ TooManyKeys(d)
           THEN /\ cs' = Raise("TempestException")
                /\ UNCHANGED <<resVars, migVars, netVars, chkVars, tdVars>>
           ELSE \E outcome \in CreateOutcomes :
                CreateShareThen(outcome,
                    [cs EXCEPT !.i = @ + 1,
                               !.data = Append(@, [share |-> NextId, cnt |-> 0,
                                                   available |-> FALSE,
                                                   made |-> <<NextId>>])],
                    cs)

\* the first loop is over: the while loop starts
CreateSharesWait ==
    /\ cs.status = "creating"
    /\ cs.i > Len(cs.share_data_list)
    /\ cs' = [cs EXCEPT !.status = "waiting", !.i = Len(cs.data) + 1]
    /\ UNCHANGED <<resVars, migVars, netVars, chkVars, tdVars>>

RetryAllowed_twice_more(d) == conf.share_creation_retry_number + 2 > d.cnt

RetryAllowed_once_more(d) == conf.share_creation_retry_number >= d.cnt

\* CONF.share.share_creation_retry_number > d["cnt"]
RetryAllowed(d) == conf.share_creation_retry_number > d.cnt

Recreated_keeps_share(d, id) ==
    [d EXCEPT !.cnt = @ + 1, !.made = Append(@, id)]

\* d["cnt"] += 1; d["resp"], d["share"] = cls._create_share(...)
Recreated(d, id) ==
    [d EXCEPT !.cnt = @ + 1, !.share = id, !.made = Append(@, id)]

\* body of the inner for loop for the element at cs.i, the wait ending in
\* outcome and, if the share is requested again, that request in created
WaitStep(outcome, recreate) ==
    /\ cs.status = "waiting"
    /\ cs.i <= Len(cs.data)
    /\ LET d == cs.data[cs.i]
       IN  IF d.available
           THEN /\ outcome = "available"
                /\ recreate = "created"
                /\ cs' = [cs EXCEPT !.i = @ + 1]
                /\ UNCHANGED <<resVars, migVars, netVars, chkVars, tdVars>>
           ELSE IF outcome = "available"
           THEN /\ recreate = "created"
                /\ cs' = [cs EXCEPT !.i = @ + 1,
                                    !.data[cs.i].available = TRUE,
                                    !.waits[cs.i] = @ + 1,
                                    !.waited = @ \cup {d.share}]
                /\ UNCHANGED <<resVars, migVars, netVars, chkVars, tdVars>>
           ELSE IF outcome \in BuildFailures /\ RetryAllowed(d)
           THEN CreateShareThen(recreate,
                    [cs EXCEPT !.i = @ + 1, !.data[cs.i] = Recreated(d, NextId),
                               !.waits[cs.i] = @ + 1],
                    [cs EXCEPT !.data[cs.i].cnt = @ + 1, !.waits[cs.i] = @ + 1])
           ELSE /\ recreate = "created"
                /\ cs' = [Raise(outcome) EXCEPT !.waits[cs.i] = @ + 1]
                /\ UNCHANGED <<resVars, migVars, netVars, chkVars, tdVars>>

\* [(d["resp"], d["share"]) for d in data] or [d["share"] for d in data]
ResultOf(data, with_resp) ==
    [k \in 1..Len(data) |->
        IF with_resp THEN <<"resp", data[k].share>> ELSE data[k].share]

\* while not all(d["available"] for d in data): ... ; return
WhileTest ==
    /\ cs.status = "waiting"
    /\ cs.i > Len(cs.data)
    /\ IF \A k \in 1..Len(cs.data) : cs.data[k].available
       THEN cs' = [cs EXCEPT !.status = "returned",
                             !.result = ResultOf(cs.data, cs.with_resp)]
       ELSE cs' = [cs EXCEPT !.i = 1, !.rounds = @ + 1]
    /\ UNCHANGED <<resVars, migVars, netVars, chkVars, tdVars>>

NextShares ==
    \/ \E l \in ShareDataLists, w \in BOOLEAN : create_shares_call(l, w)
    \/ CreateSharesEntry
    \/ CreateSharesWait
    \/ \E o \in WaitOutcomes, r \in CreateOutcomes : WaitStep(o, r)
    \/ WhileTest

SpecShares == InitShares /\ [][NextShares]_vars

\* a call that has started goes on: the statements of create_shares run one
\* after the other, and every request and every wait returns or raises
SpecSharesLive ==
    SpecShares /\ WF_vars(CreateSharesEntry \/ CreateSharesWait \/ WhileTest
                              \/ \E o \in WaitOutcomes, r \in CreateOutcomes :
                                    WaitStep(o, r))

-----------------------------------------------------------------------------
(* BaseSharesTest.provide_share_network *)

Workers == 1..MaxWorkers

\* what earlier runs left in the tenant: networks as network_client lists
\* them (service: the name contains "share-service") and share networks
PreviousRuns ==
    { [networks |-> <<>>, share_networks |-> <<>>],
      [networks |-> <<[id |-> 1, service |-> TRUE, subnets |-> <<1>>]>>,
       share_networks |-> <<>>],
      [networks |-> <<[id |-> 1, service |-> TRUE, subnets |-> <<1>>]>>,
       share_networks |-> <<[id |-> 1, neutron_net_id |-> 1, neutron_subnet_id |-> 1]>>],
      [networks |-> <<[id |-> 1, service |-> TRUE, subnets |-> <<>>]>>,
       share_networks |-> <<>>],
      [networks |-> <<[id |-> 1, service |-> FALSE, subnets |-> <<1>>]>>,
       share_networks |-> <<[id |-> 1, neutron_net_id |-> 1, neutron_subnet_id |-> 1]>>],
      [networks |-> <<[id |-> 1, service |-> TRUE, subnets |-> <<>>],
                      [id |-> 2, service |-> TRUE, subnets |-> <<2, 3>>]>>,
       share_networks |-> <<[id |-> 1, neutron_net_id |-> 2, neutron_subnet_id |-> 3],
                            [id |-> 2, neutron_net_id |-> 2, neutron_subnet_id |-> 2]>>] }

\* sc.share_network_id of the client a worker passes
ClientShareNetworkIds == {NoId, PresetId}

InitNet == InitWith(ConfValues({0}, BOOLEAN), PreviousRuns)

LockFree_always == TRUE

\* @lockutils.synchronized("service_vm", external=True, lock_path="tempest")
LockFree == lock = NoId

\* the lock is given up when the decorated function returns or raises
Released(w) == IF lock = w THEN NoId ELSE lock

Branch_ignores_client(sn) ==
    IF ~conf.multitenancy_enabled THEN "single_tenant" ELSE "find_or_create"

\* the branch of `if not CONF.share.multitenancy_enabled: ... elif
\* sc.share_network_id: ... else: ...`
Branch(sn) ==
    IF ~conf.multitenancy_enabled THEN "single_tenant"
    ELSE IF sn # NoId THEN "existing"
    ELSE "find_or_create"

\* a worker calls provide_share_network, gets the lock and takes the branch
\* that the configuration and its client select
Enter(w, sn) ==
    /\ workers[w].pc = "idle"
    /\ LockFree
    /\ lock' = w
    /\ workers' = [workers EXCEPT ![w] =
          CASE Branch(sn) = "single_tenant" ->
                 [@ EXCEPT !.pc = "return", !.client = sn, !.share_network_id = NoId]
            [] Branch(sn) = "existing" ->
                 [@ EXCEPT !.pc = "return", !.client = sn, !.share_network_id = sn]
            [] Branch(sn) = "find_or_create" ->
                 [@ EXCEPT !.pc = "list_networks", !.client = sn]]
    /\ UNCHANGED <<backend, resVars, migVars, sharesVars, chkVars, tdVars>>

\* the for loop over the listed networks, from index i on
RECURSIVE SearchNetworks(_, _, _, _)
SearchNetworks(networks, i, net_id, subnet_id) ==
    IF i > Len(networks)
    THEN [net_id |-> net_id, subnet_id |-> subnet_id]
    ELSE IF networks[i].service
         THEN IF Len(networks[i].subnets) > 0
              THEN [net_id |-> networks[i].id, subnet_id |-> networks[i].subnets[1]]
              ELSE SearchNetworks(networks, i + 1, networks[i].id, subnet_id)
         ELSE SearchNetworks(networks, i + 1, net_id, subnet_id)

ListNetworks(w) ==
    /\ workers[w].pc = "list_networks"
    /\ LET found == SearchNetworks(backend.networks, 1, NoId, NoId)
       IN  workers' = [workers EXCEPT ![w] =
              [@ EXCEPT !.net_id = found.net_id, !.subnet_id = found.subnet_id,
                        !.pc = IF found.net_id = NoId \/ found.subnet_id = NoId
                               THEN "create_network"
                               ELSE "list_share_networks"]]
    /\ UNCHANGED <<lock, backend, resVars, migVars, sharesVars, chkVars, tdVars>>

\* ic._create_network_resources(tenant["id"]): a network named after
\* "share-service" with one subnet
CreateNetwork(w) ==
    /\ workers[w].pc = "create_network"
    /\ LET id == Len(backend.networks) + 1
       IN  /\ backend' = [backend EXCEPT
                 !.networks = Append(@, [id |-> id, service |-> TRUE, subnets |-> <<id>>]),
                 !.created_networks = @ + 1]
           /\ workers' = [workers EXCEPT ![w] =
                 [@ EXCEPT !.net_id = id, !.subnet_id = id, !.pc = "list_share_networks"]]
    /\ UNCHANGED <<lock, resVars, migVars, sharesVars, chkVars, tdVars>>

SearchShareNetworks_first(share_networks, i, net_id, subnet_id) ==
    IF share_networks = <<>> THEN NoId ELSE share_networks[1].id

\* the for loop over the listed share networks, from index i on
RECURSIVE SearchShareNetworks(_, _, _, _)
SearchShareNetworks(share_networks, i, net_id, subnet_id) ==
    IF i > Len(share_networks)
    THEN NoId
    ELSE IF /\ net_id = share_networks[i].neutron_net_id
            /\ subnet_id = share_networks[i].neutron_subnet_id
         THEN share_networks[i].id
         ELSE SearchShareNetworks(share_networks, i + 1, net_id, subnet_id)

ListShareNetworks(w) ==
    /\ workers[w].pc = "list_share_networks"
    /\ LET found == SearchShareNetworks(backend.share_networks, 1,
                                        workers[w].net_id, workers[w].subnet_id)
       IN  workers' = [workers EXCEPT ![w] =
              [@ EXCEPT !.share_network_id = found,
                        !.pc = IF found = NoId THEN "create_share_network" ELSE "return"]]
    /\ UNCHANGED <<lock, backend, resVars, migVars, sharesVars, chkVars, tdVars>>

CreateShareNetwork(w) ==
    /\ workers[w].pc = "create_share_network"
    /\ LET id == Len(backend.share_networks) + 1
       IN  /\ backend' = [backend EXCEPT
                 !.share_networks = Append(@, [id |-> id,
                                               neutron_net_id |-> workers[w].net_id,
                                               neutron_subnet_id |-> workers[w].subnet_id]),
                 !.created_share_networks = @ + 1]
           /\ workers' = [workers EXCEPT ![w] =
                 [@ EXCEPT !.share_network_id = id, !.pc = "return"]]
    /\ UNCHANGED <<lock, resVars, migVars, sharesVars, chkVars, tdVars>>

\* return share_network_id
Return(w) ==
    /\ workers[w].pc = "return"
    /\ workers' = [workers EXCEPT ![w] =
          [@ EXCEPT !.pc = "returned", !.result = workers[w].share_network_id]]
    /\ lock' = Released(w)
    /\ UNCHANGED <<backend, resVars, migVars, sharesVars, chkVars, tdVars>>

\* the steps that call the network or the share service
ApiSteps ==
    {"list_networks", "create_network", "list_share_networks", "create_share_network"}

\* a call to a service raises: the exception leaves the function
ApiError(w) ==
    /\ workers[w].pc \in ApiSteps
    /\ workers' = [workers EXCEPT ![w] = [@ EXCEPT !.pc = "raised"]]
    /\ lock' = Released(w)
    /\ UNCHANGED <<backend, resVars, migVars, sharesVars, chkVars, tdVars>>

NextNet ==
    \/ \E w \in Workers, sn \in ClientShareNetworkIds : Enter(w, sn)
    \/ \E w \in Workers : ListNetworks(w)
    \/ \E w \in Workers : CreateNetwork(w)
    \/ \E w \in Workers : ListShareNetworks(w)
    \/ \E w \in Workers : CreateShareNetwork(w)
    \/ \E w \in Workers : Return(w)
    \/ \E w \in Workers : ApiError(w)

SpecNet == InitNet /\ [][NextNet]_vars

-----------------------------------------------------------------------------
(* The check classes against a database. A table is a sequence of rows, a  *)
(* row a function from the columns that were given a value to strings; of  *)
(* each fixture the ids, the references and the columns that a check reads *)
(* are kept. A number or a boolean of the code is written as its string.   *)
(* A class is named by the revision it is registered for.                  *)

\* the revisions given to @map_to_migration, in the order of the module:
\* AvailabilityZoneMigrationChecks, ShareInstanceExportLocationMetadataChecks,
\* AccessRulesStatusMigrationChecks, ShareReplicationMigrationChecks,
\* NetworkAllocationsNewLabelColumnChecks,
\* ShareSnapshotInstanceNewProviderLocationColumnChecks,
\* ShareNetwoksFieldLengthChecks, NewGatewayColumnChecks,
\* RemoveHostFromDriverPrivateDataChecks, NewMTUColumnChecks,
\* AddAccessKeyToShareAccessMapping, MoveShareTypeIdToInstancesCheck
CheckRevisions ==
    {"1f0bd302c1a6", "dda6de06349", "344c1ac4747f", "293fac1130ca", "5155c7077f99",
     "eb6d5544cbbd", "221a83cfd85b", "fdfb668d19e1", "e8ea58723178", "493eaffd79e1",
     "63809d875e32", "48a7beae3117"}

\* uuidutils.generate_uuid(): the n-th value made by a seed call
Uuid(n) == <<"c0000000-0000-4000-8000-000000000001",
             "c0000000-0000-4000-8000-000000000002",
             "c0000000-0000-4000-8000-000000000003",
             "c0000000-0000-4000-8000-000000000004",
             "c0000000-0000-4000-8000-000000000005",
             "c0000000-0000-4000-8000-000000000006">>[n]

\* uuidutils.is_uuid_like(val), on the values that occur
is_uuid_like(val) == val \in {Uuid(n) : n \in 1..6}

\* table.insert(row), to be executed
Ins(table, row) == [table |-> table, row |-> row]

valid_az_names_with_az3 == {"az1", "az2", "az3"}

valid_az_names == {"az1", "az2"}

\* a share network, a share server in it, two network allocations of it
NetworkFixture(sn_id, server_id, na_id1, na_id2) ==
    << Ins("share_networks", [id |-> sn_id, user_id |-> "user_id",
                              project_id |-> "project_id"]),
       Ins("share_servers", [id |-> server_id, share_network_id |-> sn_id]),
       Ins("network_allocations", [id |-> na_id1, share_server_id |-> server_id,
                                   ip_address |-> "1.1.1.1"]),
       Ins("network_allocations", [id |-> na_id2, share_server_id |-> server_id,
                                   ip_address |-> "2.2.2.2"]) >>

some_shares == << [id |-> "s1", share_type_id |-> "t1"],
                  [id |-> "s2", share_type_id |-> "t2"],
                  [id |-> "s3", share_type_id |-> "t3"] >>

some_instances == << [id |-> "i1", share_id |-> "s3"],
                     [id |-> "i2", share_id |-> "s2"],
                     [id |-> "i3", share_id |-> "s2"],
                     [id |-> "i4", share_id |-> "s1"] >>

MoveShareTypeId_fixture_shares_first ==
    [i \in 1..3 |-> Ins("shares", some_shares[i])]
    \o [i \in 1..3 |-> Ins("share_types", [id |-> some_shares[i].share_type_id])]
    \o [i \in 1..4 |-> Ins("share_instances", some_instances[i])]

\* MoveShareTypeIdToInstancesCheck.setup_upgrade_data: the share types, the
\* shares, the instances
MoveShareTypeId_fixture ==
    [i \in 1..3 |-> Ins("share_types", [id |-> some_shares[i].share_type_id])]
    \o [i \in 1..3 |-> Ins("shares", some_shares[i])]
    \o [i \in 1..4 |-> Ins("share_instances", some_instances[i])]

\* the engine.execute(table.insert(...)) statements of setup_upgrade_data of
\* the class of the revision, in the order the code issues them
Fixture(rev) ==
    CASE rev = "1f0bd302c1a6" ->
           [i \in 1..3 |-> Ins("services", service_fixture[i])]
      [] rev = "dda6de06349" ->
           << Ins("shares", [id |-> "foo_share_id"]),
              Ins("shares", [id |-> "bar_share_id"]),
              Ins("share_instances",
                  [id |-> "foo_share_instance_id_oof", share_id |-> "foo_share_id"]),
              Ins("share_instances",
                  [id |-> "bar_share_instance_id_rab", share_id |-> "bar_share_id"]),
              Ins("share_instance_export_locations",
                  [id |-> "1", path |-> "/1",
                   share_instance_id |-> "foo_share_instance_id_oof"]),
              Ins("share_instance_export_locations",
                  [id |-> "2", path |-> "/2",
                   share_instance_id |-> "bar_share_instance_id_rab"]) >>
      [] rev = "344c1ac4747f" ->
           \* the share, then each instance followed by its rules
           LET instance(id, status) ==
                   Ins("share_instances", [id |-> id, share_id |-> "1",
                                           status |-> status, deleted |-> "False"])
               rule(id, share_instance_id, state) ==
                   Ins("share_instance_access_map",
                       [id |-> id, share_instance_id |-> share_instance_id,
                        state |-> state, deleted |-> "False"])
           IN  << Ins("shares", [id |-> "1"]),
                  instance("1", "available"),
                  rule("r1", "1", "active"), rule("r2", "1", "active"),
                  rule("r3", "1", "deleting"),
                  instance("2", "available"),
                  rule("r4", "2", "active"), rule("r5", "2", "error"),
                  instance("3", "available"),
                  rule("r6", "3", "new"),
                  instance("4", "deleting") >>
      [] rev = "293fac1130ca" ->
           \* _new_share and _new_instance are called in turn for each display
           \* name: the shares get the odd uuids, the instances the even ones
           [i \in 1..3 |-> Ins("shares", [id |-> Uuid(2 * i - 1), deleted |-> "False",
                                          display_name |-> valid_share_display_names[i]])]
           \o [i \in 1..3 |-> Ins("share_instances",
                                  [id |-> Uuid(2 * i), deleted |-> "False",
                                   share_id |-> Uuid(2 * i - 1)])]
      [] rev = "5155c7077f99" ->
           NetworkFixture("foo_share_network_id", "foo_share_server_id",
                          "fake_network_allocation_id_1", "fake_network_allocation_id_2")
      [] rev = "eb6d5544cbbd" ->
           << Ins("shares", [id |-> "new_share_id"]),
              Ins("share_instances",
                  [id |-> "new_share_instance_id", share_id |-> "new_share_id"]),
              Ins("share_snapshots", [id |-> "new_snapshot_id", share_id |-> "new_share_id"]),
              Ins("share_snapshot_instances",
                  [id |-> "new_snapshot_instance_id", snapshot_id |-> "new_snapshot_id",
                   share_instance_id |-> "new_share_instance_id"]) >>
      [] rev = "221a83cfd85b" ->
           << Ins("share_networks", [id |-> "foo_share_network_id_2",
                                     user_id |-> "123456789123456789",
                                     project_id |-> "project_id"]),
              Ins("security_services", [id |-> "foo_security_services_id",
                                        project_id |-> "project_id"]) >>
      [] rev = "fdfb668d19e1" ->
           NetworkFixture("share_network_id_fake_1", "share_server_id_foo",
                          "network_allocation_id_fake_1", "network_allocation_id_fake_2")
      [] rev = "e8ea58723178" ->
           << Ins("drivers_private_data",
                  [host |-> "host1", entity_uuid |-> "entity_uuid1", key |-> "key1"]) >>
      [] rev = "493eaffd79e1" ->
           NetworkFixture("share_network_id_fake_3_1", "share_server_id_foo_2",
                          "network_allocation_id_fake_3_1",
                          "network_allocation_id_fake_3_2")
      [] rev = "63809d875e32" ->
           << Ins("shares", [id |-> Uuid(1)]),
              Ins("share_instances",
                  [id |-> Uuid(2), share_id |-> Uuid(1), deleted |-> "False"]),
              Ins("share_access_map",
                  [id |-> Uuid(3), share_id |-> Uuid(1), deleted |-> "False"]),
              Ins("share_instance_access_map",
                  [id |-> Uuid(4), share_instance_id |-> Uuid(2),
                   access_id |-> Uuid(3), deleted |-> "False"]) >>
      [] rev = "48a7beae3117" -> MoveShareTypeId_fixture

\* columns that revisions before rev added and that the class of rev writes
\* in check_upgrade
EarlierColumns(rev, table) ==
    IF rev \in {"fdfb668d19e1", "493eaffd79e1"}
    THEN IF table = "network_allocations"
         THEN {"label", "network_type", "segmentation_id", "ip_version", "cidr"}
              \cup (IF rev = "493eaffd79e1" THEN {"gateway"} ELSE {})
         ELSE IF table = "share_networks"
         THEN {"name"} \cup (IF rev = "493eaffd79e1" THEN {"gateway"} ELSE {})
         ELSE {}
    ELSE {}

\* the database at the revision before rev, empty: the tables that
\* setup_upgrade_data loads with the columns it and check_upgrade write, and
\* the type length ShareNetwoksFieldLengthChecks.check_downgrade expects
Unmigrated(rev) ==
    LET inserts == Fixture(rev)
        tables == {inserts[i].table : i \in 1..Len(inserts)}
        columns(t) == UNION {DOMAIN inserts[i].row :
                                i \in {j \in 1..Len(inserts) : inserts[j].table = t}}
    IN  [cols |-> [t \in tables |-> columns(t) \cup EarlierColumns(rev, t)],
         rows |-> [t \in tables |-> <<>>],
         length |-> "36",
         log |-> <<>>]

\* utils.load_table(name, engine) finds the table
HasTable(e, table) == table \in DOMAIN e.cols

\* engine.execute(table.select()): every row with every column of the table,
\* NULL where the row was given no value
Select(e, table) ==
    [i \in 1..Len(e.rows[table]) |->
        [c \in e.cols[table] |->
            IF c \in DOMAIN e.rows[table][i] THEN e.rows[table][i][c] ELSE "None"]]

\* select().where(column == value)
RECURSIVE Where(_, _, _)
Where(rows, column, value) ==
    IF rows = <<>> THEN <<>>
    ELSE (IF Head(rows)[column] = value THEN <<Head(rows)>> ELSE <<>>)
         \o Where(Tail(rows), column, value)

\* `table.c.<column> in values`: Python compares the column with each value
\* and takes the truth value of the SQL expression `column == value`, which
\* is False; select().where(False) selects no row
PythonIn(column, values) == FALSE

\* an insert is refused when the table or a column is missing or the id is taken
CanInsert(e, table, row) ==
    /\ HasTable(e, table)
    /\ DOMAIN row \subseteq e.cols[table]
    /\ "id" \in DOMAIN row =>
          \A i \in 1..Len(e.rows[table]) :
              "id" \in DOMAIN e.rows[table][i] => e.rows[table][i].id # row.id

\* engine.execute(table.insert(row)); log keeps the statements in order
Insert(e, table, row) ==
    [e EXCEPT !.rows[table] = Append(@, row), !.log = Append(@, Ins(table, row))]

\* the statements of a fixture, executed one after the other
RECURSIVE InsertAll(_, _)
InsertAll(e, inserts) ==
    IF inserts = <<>> THEN e
    ELSE InsertAll(Insert(e, Head(inserts).table, Head(inserts).row), Tail(inserts))

\* hasattr(row, name)
hasattr(row, name) == name \in DOMAIN row

\* a migration adds a column, every row getting the value
AddColumn(e, table, column, value) ==
    [e EXCEPT !.cols[table] = @ \cup {column},
              !.rows[table] = [i \in 1..Len(@) |->
                  [c \in DOMAIN @[i] \cup {column} |->
                      IF c = column THEN value ELSE @[i][c]]]]

\* a migration drops a column
DropColumn(e, table, column) ==
    [e EXCEPT !.cols[table] = @ \ {column},
              !.rows[table] = [i \in 1..Len(@) |->
                  [c \in DOMAIN @[i] \ {column} |-> @[i][c]]]]

\* a migration creates a table
AddTable(e, table, columns, rows) ==
    [e EXCEPT !.cols = @ @@ [t \in {table} |-> columns],
              !.rows = @ @@ [t \in {table} |-> rows]]

\* how a check ends: "passed" when it returns, "failed" when an assertion of
\* test_case fails, "error" when a statement raises; and the database it leaves
Outcome(outcome, e) == [outcome |-> outcome, engine |-> e]

\* AvailabilityZoneMigrationChecks
check_upgrade_1f0bd302c1a6(e) ==
    IF ~HasTable(e, "availability_zones") THEN Outcome("error", e)
    ELSE LET azs == Select(e, "availability_zones")
             services == Select(e, "services")
         IN  IF \E i \in 1..Len(azs) :
                   ~ (/\ is_uuid_like(azs[i].id)
                      /\ azs[i].name \in valid_az_names
                      /\ azs[i].deleted = "False")
             THEN Outcome("failed", e)
             ELSE IF \E i \in 1..Len(services) :
                        ~hasattr(services[i], "availability_zone_id")
             THEN Outcome("error", e)
             ELSE IF \E i \in 1..Len(services) :
                        ~is_uuid_like(services[i].availability_zone_id)
             THEN Outcome("failed", e)
             ELSE Outcome("passed", e)

check_downgrade_1f0bd302c1a6(e) ==
    LET services == Select(e, "services")
    IN  IF \E i \in 1..Len(services) : ~hasattr(services[i], "availability_zone")
        THEN Outcome("error", e)
        ELSE IF \E i \in 1..Len(services) :
                   services[i].availability_zone \notin valid_az_names
        THEN Outcome("failed", e)
        ELSE Outcome("passed", e)

\* ShareInstanceExportLocationMetadataChecks
check_upgrade_dda6de06349(e) ==
    LET els == Select(e, "share_instance_export_locations")
        elm == "share_instance_export_locations_metadata"
        el_metadata ==
            << [key |-> "foo_key", value |-> "foo_value", export_location_id |-> "1"],
               [key |-> "bar_key", value |-> "bar_value", export_location_id |-> "2"] >>
        expected_keys == {"id", "created_at", "updated_at", "deleted_at", "deleted",
                          "export_location_id", "key", "value"}
    IN  IF \E i \in 1..Len(els) :
              \/ ~hasattr(els[i], "is_admin_only")
              \/ ~hasattr(els[i], "uuid")
        THEN Outcome("failed", e)
        ELSE IF \E i \in 1..Len(els) :
                   els[i].is_admin_only # "False" \/ ~is_uuid_like(els[i].uuid)
        THEN Outcome("failed", e)
        ELSE IF ~CanInsert(e, elm, el_metadata[1])
        THEN Outcome("error", e)
        ELSE LET e2 == Insert(Insert(e, elm, el_metadata[1]), elm, el_metadata[2])
                 records(k) == Where(Select(e2, elm), "export_location_id",
                                     el_metadata[k].export_location_id)
             IN  IF \E k \in 1..2 : Len(records(k)) # 1
                 THEN Outcome("failed", e2)
                 ELSE IF e2.cols[elm] # expected_keys
                 THEN Outcome("failed", e2)
                 ELSE IF \E k \in 1..2 : \E c \in DOMAIN el_metadata[k] :
                            records(k)[1][c] # el_metadata[k][c]
                 THEN Outcome("failed", e2)
                 ELSE Outcome("passed", e2)

\* AccessRulesStatusMigrationChecks
check_upgrade_344c1ac4747f(e) ==
    LET valid_statuses == [k \in {"1", "2", "3", "4"} |->
                              CASE k = "1" -> "active" [] k = "2" -> "error"
                                [] k = "3" -> "out_of_sync" [] k = "4" -> "None"]
        instances == IF PythonIn("id", DOMAIN valid_statuses)
                     THEN Select(e, "share_instances") ELSE <<>>
    IN  IF \E i \in 1..Len(instances) :
              \/ instances[i].id \notin DOMAIN valid_statuses
              \/ ~hasattr(instances[i], "access_rules_status")
        THEN Outcome("error", e)
        ELSE IF \E i \in 1..Len(instances) :
                   valid_statuses[instances[i].id] # instances[i].access_rules_status
        THEN Outcome("failed", e)
        ELSE Outcome("passed", e)

\* ShareReplicationMigrationChecks, with the value of self.valid_share_ids
check_upgrade_293fac1130ca(e, valid_share_ids) ==
    LET ids == {valid_share_ids[k] : k \in 1..Len(valid_share_ids)}
        all_shares == Select(e, "shares")
        all_instances == Select(e, "share_instances")
        shares == {i \in 1..Len(all_shares) : all_shares[i].id \in ids}
        share_instances == {i \in 1..Len(all_instances) : all_instances[i].share_id \in ids}
    IN  IF \E sid \in ids :
              \/ sid \notin {all_shares[i].id : i \in shares}
              \/ sid \notin {all_instances[i].share_id : i \in share_instances}
        THEN Outcome("failed", e)
        ELSE IF \E i \in shares :
                   \/ all_shares[i].display_name \notin
                          {valid_share_display_names[k] : k \in 1..3}
                   \/ all_shares[i].deleted # "False"
                   \/ ~hasattr(all_shares[i], "replication_type")
        THEN Outcome("failed", e)
        ELSE IF \E i \in share_instances : ~hasattr(all_instances[i], "replica_state")
        THEN Outcome("failed", e)
        ELSE Outcome("passed", e)

\* NetworkAllocationsNewLabelColumnChecks
check_upgrade_5155c7077f99(e) ==
    LET t == "network_allocations"
        nas == Select(e, t)
        admin == [id |-> "fake_network_allocation_id_3",
                  share_server_id |-> nas[Len(nas)].share_server_id,
                  ip_address |-> "3.3.3.3", label |-> "admin", network_type |-> "vlan",
                  segmentation_id |-> "1005", ip_version |-> "4", cidr |-> "240.0.0.0/16"]
    IN  IF \E i \in 1..Len(nas) : ~hasattr(nas[i], "label")
        THEN Outcome("failed", e)
        ELSE IF \E i \in 1..Len(nas) : nas[i].label # "user"
        THEN Outcome("failed", e)
        ELSE IF nas = <<>> \/ ~CanInsert(e, t, admin)
        THEN Outcome("error", e)
        ELSE LET e2 == Insert(e, t, admin)
                 admins == Where(Select(e2, t), "label", "admin")
             IN  IF \E i \in 1..Len(admins) :
                       \E c \in {"network_type", "segmentation_id", "ip_version", "cidr"} :
                           admins[i][c] # admin[c]
                 THEN Outcome("failed", e2)
                 ELSE Outcome("passed", e2)

\* ShareSnapshotInstanceNewProviderLocationColumnChecks
check_upgrade_eb6d5544cbbd(e) ==
    LET rows == Select(e, "share_snapshot_instances")
    IN  IF ~ (Len(rows) > 0)
        THEN Outcome("failed", e)
        ELSE IF \E i \in 1..Len(rows) :
                   \/ ~hasattr(rows[i], "provider_location")
                   \/ rows[i].id # "new_snapshot_instance_id"
                   \/ rows[i].snapshot_id # "new_snapshot_id"
        THEN Outcome("failed", e)
        ELSE Outcome("passed", e)

\* ShareNetwoksFieldLengthChecks
check_upgrade_221a83cfd85b(e) ==
    IF \/ ~ (Len(Select(e, "share_networks")) > 0)
       \/ e.length # "255"
       \/ ~ (Len(Select(e, "security_services")) > 0)
    THEN Outcome("failed", e)
    ELSE Outcome("passed", e)

\* the third allocation that NewGatewayColumnChecks and NewMTUColumnChecks
\* insert, for the server of the last allocation selected
NewAllocation(id, nas) ==
    [id |-> id, share_server_id |-> nas[Len(nas)].share_server_id,
     ip_address |-> "3.3.3.3", gateway |-> "3.3.3.1", network_type |-> "vlan",
     segmentation_id |-> "1005", ip_version |-> "4", cidr |-> "240.0.0.0/16"]

\* the second share network they insert, for the user of the last one selected
NewShareNetwork(id, name, sns) ==
    [id |-> id, user_id |-> sns[Len(sns)].user_id,
     project_id |-> sns[Len(sns)].project_id, gateway |-> "1.1.1.1", name |-> name]

\* NewGatewayColumnChecks
check_upgrade_fdfb668d19e1(e) ==
    LET na == "network_allocations"
        sn == "share_networks"
        nas == Select(e, na)
        sns == Select(e, sn)
        network_allocation == NewAllocation("network_allocation_id_fake_3", nas)
        share_network == NewShareNetwork("share_network_id_fake_2", "name_foo", sns)
    IN  IF \E i \in 1..Len(nas) : ~hasattr(nas[i], "gateway")
        THEN Outcome("failed", e)
        ELSE IF nas = <<>> \/ ~CanInsert(e, na, network_allocation)
        THEN Outcome("error", e)
        ELSE LET e2 == Insert(e, na, network_allocation)
             IN  IF \E i \in 1..Len(sns) : ~hasattr(sns[i], "gateway")
                 THEN Outcome("failed", e2)
                 ELSE IF sns = <<>> \/ ~CanInsert(e2, sn, share_network)
                 THEN Outcome("error", e2)
                 ELSE LET e3 == Insert(e2, sn, share_network)
                          named == Where(Select(e3, sn), "name", "name_foo")
                      IN  IF \E i \in 1..Len(named) :
                                named[i].gateway # share_network.gateway
                          THEN Outcome("failed", e3)
                          ELSE Outcome("passed", e3)

\* RemoveHostFromDriverPrivateDataChecks
check_upgrade_e8ea58723178(e) ==
    LET rows == Select(e, "drivers_private_data")
    IN  IF \E i \in 1..Len(rows) : hasattr(rows[i], "host")
        THEN Outcome("failed", e)
        ELSE Outcome("passed", e)

\* NewMTUColumnChecks
check_upgrade_493eaffd79e1(e) ==
    LET na == "network_allocations"
        sn == "share_networks"
        nas == Select(e, na)
        sns == Select(e, sn)
        new_na == "network_allocation_id_fake_3_3"
        new_sn == "share_network_id_fake_3_2"
        network_allocation == NewAllocation(new_na, nas) @@ [c \in {"mtu"} |-> "1509"]
        share_network == NewShareNetwork(new_sn, "name_foo_2", sns)
                             @@ [c \in {"mtu"} |-> "1509"]
        \* "select all entries and check for the value"
        wrong(rows, id) == \E i \in 1..Len(rows) :
                               rows[i].mtu # (IF rows[i].id = id THEN "1509" ELSE "None")
    IN  IF \E i \in 1..Len(nas) : ~hasattr(nas[i], "mtu")
        THEN Outcome("failed", e)
        ELSE IF nas = <<>> \/ ~CanInsert(e, na, network_allocation)
        THEN Outcome("error", e)
        ELSE LET e2 == Insert(e, na, network_allocation)
             IN  IF wrong(Select(e2, na), new_na)
                 THEN Outcome("failed", e2)
                 ELSE IF \E i \in 1..Len(sns) : ~hasattr(sns[i], "mtu")
                 THEN Outcome("failed", e2)
                 ELSE IF sns = <<>> \/ ~CanInsert(e2, sn, share_network)
                 THEN Outcome("error", e2)
                 ELSE LET e3 == Insert(e2, sn, share_network)
                      IN  IF wrong(Select(e3, sn), new_sn)
                          THEN Outcome("failed", e3)
                          ELSE Outcome("passed", e3)

\* AddAccessKeyToShareAccessMapping
check_upgrade_63809d875e32(e) ==
    LET rows == Select(e, "share_access_map")
    IN  IF \E i \in 1..Len(rows) : ~hasattr(rows[i], "access_key")
        THEN Outcome("failed", e)
        ELSE Outcome("passed", e)

\* MoveShareTypeIdToInstancesCheck
check_upgrade_48a7beae3117(e) ==
    LET instance_ids == {some_instances[i].id : i \in 1..Len(some_instances)}
        share_ids == {some_shares[i].id : i \in 1..Len(some_shares)}
        instances == IF PythonIn("id", instance_ids)
                     THEN Select(e, "share_instances") ELSE <<>>
        shares == IF PythonIn("id", share_ids)
                  THEN Select(e, "share_instances") ELSE <<>>
        found(instance) == Where(Select(e, "shares"), "id", instance.share_id)
        expected(share) == LET x == CHOOSE k \in 1..Len(some_shares) :
                                        some_shares[k].id = share.id
                           IN  some_shares[x].share_type_id
    IN  IF \E i \in 1..Len(instances) :
              \/ found(instances[i]) = <<>>
              \/ found(instances[i])[1].id \notin share_ids
              \/ ~hasattr(instances[i], "share_type_id")
        THEN Outcome("error", e)
        ELSE IF \E i \in 1..Len(instances) :
                   expected(found(instances[i])[1]) # instances[i].share_type_id
        THEN Outcome("failed", e)
        ELSE IF \E i \in 1..Len(shares) : hasattr(shares[i], "share_type_id")
        THEN Outcome("failed", e)
        ELSE Outcome("passed", e)

\* NetworkAllocationsNewLabelColumnChecks.check_downgrade; rowcount is taken
\* to be the number of rows selected
check_downgrade_5155c7077f99_two_rows(e) ==
    LET ids == <<"fake_network_allocation_id_1", "fake_network_allocation_id_2",
                 "fake_network_allocation_id_3">>
        nas == Select(e, "network_allocations")
    IN  IF ~ (Len(nas) >= Len(ids) - 1)
        THEN Outcome("failed", e)
        ELSE IF \E i \in 1..Len(nas) :
                   \E c \in {"label", "network_type", "segmentation_id",
                              "ip_version", "cidr"} : hasattr(nas[i], c)
        THEN Outcome("failed", e)
        ELSE Outcome("passed", e)

check_downgrade_5155c7077f99(e) ==
    LET ids == <<"fake_network_allocation_id_1", "fake_network_allocation_id_2",
                 "fake_network_allocation_id_3">>
        nas == Select(e, "network_allocations")
    IN  IF ~ (Len(nas) >= Len(ids))
        THEN Outcome("failed", e)
        ELSE IF \E i \in 1..Len(nas) :
                   \E c \in {"label", "network_type", "segmentation_id",
                              "ip_version", "cidr"} : hasattr(nas[i], c)
        THEN Outcome("failed", e)
        ELSE Outcome("passed", e)

\* NewGatewayColumnChecks.check_downgrade: the allocations, then the share
\* networks
check_downgrade_fdfb668d19e1(e) ==
    LET na_ids == <<"network_allocation_id_fake_1", "network_allocation_id_fake_2",
                    "network_allocation_id_fake_3">>
        sn_ids == <<"share_network_id_fake_1", "share_network_id_fake_2">>
        nas == Select(e, "network_allocations")
        sns == Select(e, "share_networks")
    IN  IF ~ (Len(nas) >= Len(na_ids))
        THEN Outcome("failed", e)
        ELSE IF \E i \in 1..Len(nas) : hasattr(nas[i], "gateway")
        THEN Outcome("failed", e)
        ELSE IF ~ (Len(sns) >= Len(sn_ids))
        THEN Outcome("failed", e)
        ELSE IF \E i \in 1..Len(sns) : hasattr(sns[i], "gateway")
        THEN Outcome("failed", e)
        ELSE Outcome("passed", e)

\* NewMTUColumnChecks.check_downgrade
check_downgrade_493eaffd79e1(e) ==
    LET na_ids == <<"network_allocation_id_fake_3_1", "network_allocation_id_fake_3_2",
                    "network_allocation_id_fake_3_3">>
        sn_ids == <<"share_network_id_fake_3_1", "share_network_id_fake_3_2">>
        nas == Select(e, "network_allocations")
        sns == Select(e, "share_networks")
    IN  IF ~ (Len(nas) >= Len(na_ids))
        THEN Outcome("failed", e)
        ELSE IF \E i \in 1..Len(nas) : hasattr(nas[i], "mtu")
        THEN Outcome("failed", e)
        ELSE IF ~ (Len(sns) >= Len(sn_ids))
        THEN Outcome("failed", e)
        ELSE IF \E i \in 1..Len(sns) : hasattr(sns[i], "mtu")
        THEN Outcome("failed", e)
        ELSE Outcome("passed", e)

\* check_downgrade of the class registered for the revision, for the
\* revisions whose downgrade is modelled
check_downgrade(rev, e) ==
    CASE rev = "1f0bd302c1a6" -> check_downgrade_1f0bd302c1a6(e)
      [] rev = "5155c7077f99" -> check_downgrade_5155c7077f99(e)
      [] rev = "fdfb668d19e1" -> check_downgrade_fdfb668d19e1(e)
      [] rev = "493eaffd79e1" -> check_downgrade_493eaffd79e1(e)

\* check_upgrade of the class registered for the revision
check_upgrade(rev, e, valid_share_ids) ==
    CASE rev = "1f0bd302c1a6" -> check_upgrade_1f0bd302c1a6(e)
      [] rev = "dda6de06349" -> check_upgrade_dda6de06349(e)
      [] rev = "344c1ac4747f" -> check_upgrade_344c1ac4747f(e)
      [] rev = "293fac1130ca" -> check_upgrade_293fac1130ca(e, valid_share_ids)
      [] rev = "5155c7077f99" -> check_upgrade_5155c7077f99(e)
      [] rev = "eb6d5544cbbd" -> check_upgrade_eb6d5544cbbd(e)
      [] rev = "221a83cfd85b" -> check_upgrade_221a83cfd85b(e)
      [] rev = "fdfb668d19e1" -> check_upgrade_fdfb668d19e1(e)
      [] rev = "e8ea58723178" -> check_upgrade_e8ea58723178(e)
      [] rev = "493eaffd79e1" -> check_upgrade_493eaffd79e1(e)
      [] rev = "63809d875e32" -> check_upgrade_63809d875e32(e)
      [] rev = "48a7beae3117" -> check_upgrade_48a7beae3117(e)

-----------------------------------------------------------------------------
(* The migrations themselves are not part of the two files: an upgrade is  *)
(* modelled by the change of schema its check class describes, the value   *)
(* it gives the new column in the rows that exist being any of             *)
(* ServerDefaults; the availability zone migration may leave any zones.    *)

MaxZones == 2

ServerDefaults == {"None", "False", "user"}

ZoneLists ==
    LET rows == [id : {Uuid(1), "1"}, name : {"az1", "az2", "az3"},
                 deleted : {"False", "True"}]
    IN  UNION {[1..n -> rows] : n \in 0..MaxZones}

Upgraded(rev, e, default) ==
    CASE rev = "dda6de06349" ->
           AddTable(AddColumn(AddColumn(e, "share_instance_export_locations",
                                        "is_admin_only", default),
                              "share_instance_export_locations", "uuid", Uuid(1)),
                    "share_instance_export_locations_metadata",
                    {"id", "created_at", "updated_at", "deleted_at", "deleted",
                     "export_location_id", "key", "value"}, <<>>)
      [] rev = "344c1ac4747f" ->
           DropColumn(AddColumn(e, "share_instances", "access_rules_status", default),
                      "share_instance_access_map", "state")
      [] rev = "293fac1130ca" ->
           AddColumn(AddColumn(e, "shares", "replication_type", default),
                     "share_instances", "replica_state", default)
      [] rev = "5155c7077f99" ->
           LET added == {"network_type", "segmentation_id", "ip_version", "cidr"}
           IN  [AddColumn(e, "network_allocations", "label", default)
                   EXCEPT !.cols["network_allocations"] = @ \cup added]
      [] rev = "eb6d5544cbbd" ->
           AddColumn(e, "share_snapshot_instances", "provider_location", default)
      [] rev = "221a83cfd85b" -> [e EXCEPT !.length = "255"]
      [] rev = "fdfb668d19e1" ->
           AddColumn(AddColumn(e, "network_allocations", "gateway", default),
                     "share_networks", "gateway", default)
      [] rev = "e8ea58723178" -> DropColumn(e, "drivers_private_data", "host")
      [] rev = "493eaffd79e1" ->
           AddColumn(AddColumn(e, "network_allocations", "mtu", default),
                     "share_networks", "mtu", default)
      [] rev = "63809d875e32" -> AddColumn(e, "share_access_map", "access_key", default)
      [] rev = "48a7beae3117" ->
           DropColumn(AddColumn(e, "share_instances", "share_type_id", default),
                      "shares", "share_type_id")

\* setup_upgrade_data of the class of the revision, on the empty database of
\* the revision before
Seed(rev) ==
    /\ run.step = "fresh"
    /\ engine' = InsertAll(Unmigrated(rev), Fixture(rev))
    /\ run' = [FreshRun EXCEPT
                 !.rev = rev, !.step = "seeded",
                 !.valid_share_ids =
                     IF rev = "293fac1130ca"
                     THEN [i \in 1..3 |-> Fixture(rev)[i].row.id] ELSE <<>>]

Upgrade(default) ==
    /\ run.step = "seeded"
    /\ run.rev # "1f0bd302c1a6"
    /\ engine' = Upgraded(run.rev, engine, default)
    /\ run' = [run EXCEPT !.step = "upgraded"]

\* 1f0bd302c1a6: a table of zones, and services that refer to a zone by id
UpgradeAvailabilityZones(zones, zone_id) ==
    /\ run.step = "seeded"
    /\ run.rev = "1f0bd302c1a6"
    /\ engine' = AddTable(DropColumn(AddColumn(engine, "services",
                                               "availability_zone_id", zone_id),
                                     "services", "availability_zone"),
                          "availability_zones", {"id", "name", "deleted"}, zones)
    /\ run' = [run EXCEPT !.step = "upgraded"]

\* the upgrade check is called; a driver that skips the upgrade calls it on
\* the database as setup_upgrade_data left it
CheckUpgrade ==
    /\ run.step \in {"seeded", "upgraded"}
    /\ LET r == check_upgrade(run.rev, engine, run.valid_share_ids)
       IN  /\ engine' = r.engine
           /\ run' = [run EXCEPT !.step = "checked", !.outcome = r.outcome,
                                 !.on = IF run.step = "seeded"
                                        THEN "unmigrated" ELSE "upgraded"]

\* the downgrade of 1f0bd302c1a6, made once the upgrade check has passed:
\* services name their zone again
DowngradeAvailabilityZones(names) ==
    /\ run.step = "checked"
    /\ run.on = "upgraded"
    /\ run.outcome = "passed"
    /\ run.rev = "1f0bd302c1a6"
    /\ engine' = [engine EXCEPT
                    !.cols = [t \in {"services"} |->
                                 (engine.cols["services"] \ {"availability_zone_id"})
                                     \cup {"availability_zone"}],
                    !.rows = [t \in {"services"} |->
                                 [i \in 1..Len(engine.rows["services"]) |->
                                     [c \in {"host", "availability_zone", "deleted"} |->
                                         IF c = "availability_zone" THEN names[i]
                                         ELSE engine.rows["services"][i][c]]]]]
    /\ run' = [run EXCEPT !.step = "downgraded"]

\* the downgrade of a revision that added columns to network_allocations
\* (and share_networks) drops them again and keeps the rows
Downgraded(rev, e) ==
    LET drop(e1, table, columns) ==
            [e1 EXCEPT !.cols[table] = @ \ columns,
                       !.rows[table] = [i \in 1..Len(@) |->
                           [c \in DOMAIN @[i] \ columns |-> @[i][c]]]]
    IN  CASE rev = "5155c7077f99" ->
               drop(e, "network_allocations",
                    {"label", "network_type", "segmentation_id", "ip_version", "cidr"})
          [] rev = "fdfb668d19e1" ->
               drop(drop(e, "network_allocations", {"gateway"}),
                    "share_networks", {"gateway"})
          [] rev = "493eaffd79e1" ->
               drop(drop(e, "network_allocations", {"mtu"}), "share_networks", {"mtu"})

\* made once the upgrade check has passed, or right after the upgrade by a
\* driver that has no upgrade check to call
Downgrade ==
    /\ run.rev \in {"5155c7077f99", "fdfb668d19e1", "493eaffd79e1"}
    /\ \/ run.step = "upgraded"
       \/ run.step = "checked" /\ run.on = "upgraded" /\ run.outcome = "passed"
    /\ engine' = Downgraded(run.rev, engine)
    /\ run' = [run EXCEPT !.step = "downgraded"]

CheckDowngrade ==
    /\ run.step = "downgraded"
    /\ LET r == check_downgrade(run.rev, engine)
       IN  /\ engine' = r.engine
           /\ run' = [run EXCEPT !.step = "checked_downgrade", !.outcome = r.outcome]

NextChecks ==
    \/ \E rev \in CheckRevisions : Seed(rev) /\ UNCHANGED nonChkVars
    \/ \E default \in ServerDefaults : Upgrade(default) /\ UNCHANGED nonChkVars
    \/ \E zones \in ZoneLists, zone_id \in {Uuid(2), "None"} :
           UpgradeAvailabilityZones(zones, zone_id) /\ UNCHANGED nonChkVars
    \/ CheckUpgrade /\ UNCHANGED nonChkVars
    \/ \E names \in [1..3 -> {"az1", "az2", "az3"}] :
           DowngradeAvailabilityZones(names) /\ UNCHANGED nonChkVars
    \/ Downgrade /\ UNCHANGED nonChkVars
    \/ CheckDowngrade /\ UNCHANGED nonChkVars

SpecChecks == Init /\ [][NextChecks]_vars

-----------------------------------------------------------------------------
(* A test class of BaseSharesTest from setUpClass to tearDownClass: one     *)
(* test method; the class and the test may ask for a client with isolated  *)
(* credentials and create resources. td.log keeps, in order, the delete     *)
(* requests and the calls that clear isolated credentials.                 *)

InitTeardown == InitWith(ConfValues({0}, BOOLEAN), {[networks |-> <<>>, share_networks |-> <<>>]})

\* setUp: addCleanup appends to the cleanups of the test
setUp ==
    /\ td.phase = "class"
    /\ td' = [td EXCEPT !.phase = "test",
                        !.cleanups = @ \o <<"clear_resources", "clear_isolated_creds">>]
    /\ UNCHANGED <<resVars, migVars, sharesVars, netVars, chkVars>>

\* get_client_with_isolated_creds(cleanup_in_class=...): the entry that
\* clears the credentials is put on a list; with multitenancy the share
\* network of the client is put on the list of resources
get_client_with_isolated_creds(cleanup_in_class) ==
    /\ td.phase \in {"class", "test"}
    /\ td.class_isolated_creds = <<>> /\ td.method_isolated_creds = <<>>
    /\ LET ic_res == [method |-> "clear_isolated_creds", deleted |-> FALSE]
       IN  td' = IF cleanup_in_class
                 THEN [td EXCEPT !.class_isolated_creds = <<ic_res>> \o @]
                 ELSE [td EXCEPT !.method_isolated_creds = <<ic_res>> \o @]
    /\ IF conf.multitenancy_enabled
       THEN create_resource("share_network", isolated_client, cleanup_in_class)
       ELSE UNCHANGED <<class_resources, method_resources, exists, created>>
    /\ UNCHANGED <<conf, clr, del_log, migVars, sharesVars, netVars, chkVars>>

\* a creation helper called by setUpClass or by the test
CreateInTest(type, client, cleanup_in_class) ==
    /\ td.phase \in {"class", "test"}
    /\ client = isolated_client =>
          td.class_isolated_creds # <<>> \/ td.method_isolated_creds # <<>>
    /\ call_create(type, client, cleanup_in_class)

\* whether the credentials of the isolated client have been cleared
CredsCleared(t) == \E n \in 1..Len(t.log) : t.log[n].op = "clear_creds"

\* clear_resources(list) where no request fails for another reason than
\* credentials that are gone: the delete requests, in the order of the list
RECURSIVE DeleteEvents(_, _, _)
DeleteEvents(list, name, i) ==
    IF i > Len(list) THEN <<>>
    ELSE (IF NeedsDelete(WithDeletedKey(list[i]))
          THEN <<[op |-> "delete", id |-> list[i].id, client |-> list[i].client,
                  list |-> name]>>
          ELSE <<>>) \o DeleteEvents(list, name, i + 1)

\* the list when that call returns
AllMarked(list) == [i \in 1..Len(list) |-> MarkDeleted(WithDeletedKey(list[i]))]

\* the resources that call removes: a request made with credentials that are
\* gone ends in Unauthorized and the resource stays (unauthorized), or is
\* still served
Removed(list, t, unauthorized) ==
    {list[i].id : i \in {j \in 1..Len(list) :
        /\ NeedsDelete(WithDeletedKey(list[j]))
        /\ ~ (unauthorized /\ list[j].client = isolated_client /\ CredsCleared(t))}}

\* clear_isolated_creds(creds): ic["method"]() for every entry not deleted,
\* every entry marked deleted
clear_isolated_creds(creds, name) ==
    [creds |-> [i \in 1..Len(creds) |-> [creds[i] EXCEPT !.deleted = TRUE]],
     events |-> [i \in 1..Cardinality({j \in 1..Len(creds) : ~creds[j].deleted}) |->
                   [op |-> "clear_creds", id |-> NoId, client |-> isolated_client,
                    list |-> name]]]

\* the test method is over: the framework runs the cleanups
TestEnds ==
    /\ td.phase = "test"
    /\ td' = [td EXCEPT !.phase = "cleanups"]
    /\ UNCHANGED <<resVars, migVars, sharesVars, netVars, chkVars>>

\* doCleanups calls the function registered last and removes it
RunCleanup(unauthorized) ==
    /\ td.phase = "cleanups"
    /\ td.cleanups # <<>>
    /\ LET function == td.cleanups[Len(td.cleanups)]
           rest == SubSeq(td.cleanups, 1, Len(td.cleanups) - 1)
       IN  IF function = "clear_resources"
           THEN /\ method_resources' = AllMarked(method_resources)
                /\ exists' = exists \ Removed(method_resources, td, unauthorized)
                /\ td' = [td EXCEPT !.cleanups = rest,
                             !.log = @ \o DeleteEvents(method_resources, "method", 1)]
                /\ UNCHANGED class_resources
           ELSE /\ ~unauthorized
                /\ LET cleared == clear_isolated_creds(td.method_isolated_creds, "method")
                   IN  td' = [td EXCEPT !.cleanups = rest,
                                        !.method_isolated_creds = cleared.creds,
                                        !.log = @ \o cleared.events]
                /\ UNCHANGED <<class_resources, method_resources, exists>>
    /\ UNCHANGED <<conf, created, clr, del_log, migVars, sharesVars, netVars, chkVars>>

\* tearDownClass: clear_resources(class_resources), then
\* clear_isolated_creds(class_isolated_creds)
tearDownClass(unauthorized) ==
    /\ td.phase = "cleanups"
    /\ td.cleanups = <<>>
    /\ class_resources' = AllMarked(class_resources)
    /\ exists' = exists \ Removed(class_resources, td, unauthorized)
    /\ LET cleared == clear_isolated_creds(td.class_isolated_creds, "class")
       IN  td' = [td EXCEPT !.phase = "done",
                            !.class_isolated_creds = cleared.creds,
                            !.log = @ \o DeleteEvents(class_resources, "class", 1)
                                      \o cleared.events]
    /\ UNCHANGED <<conf, method_resources, created, clr, del_log,
                   migVars, sharesVars, netVars, chkVars>>

NextTeardown ==
    \/ setUp
    \/ \E c \in BOOLEAN : get_client_with_isolated_creds(c)
    \/ \E t \in ResourceTypes, cl \in ClientArgs, c \in BOOLEAN : CreateInTest(t, cl, c)
    \/ TestEnds
    \/ \E u \in BOOLEAN : RunCleanup(u)
    \/ \E u \in BOOLEAN : tearDownClass(u)

SpecTeardown == InitTeardown /\ [][NextTeardown]_vars

-----------------------------------------------------------------------------
(* Properties of the registry and of dispatch *)

Registered(rev) == rev \in DOMAIN migration_mappings

Instances == 1..Len(objs)

\* the instances made by the registrations of rev, oldest first
InstancesOf(rev) == {i \in Instances : objs[i].revision = rev}

Latest(S) == CHOOSE i \in S : \A j \in S : j <= i

\* C1: resolving a registered migration identifier, as dispatch does it
\* (migration_mappings.get), yields an object that a registration stored for
\* that identifier, never the object of another identifier; the method that a
\* dispatch returned belongs to an object registered for the identifier asked.
C1_ResolveRegistered ==
    /\ \A rev \in DOMAIN migration_mappings :
          LET o == DictGet(migration_mappings, rev, 0)
          IN  o \in Instances /\ objs[o].revision = rev
    /\ ret.kind = "method" =>
          /\ ret.key \in DOMAIN migration_mappings
          /\ ret.obj \in InstancesOf(ret.key)

C1_Witness ==
    /\ ret.kind = "method"
    /\ \E rev \in DOMAIN migration_mappings : rev # ret.key

\* C2 as claimed: a dispatch for an identifier without a check object returns
\* a NotFound outcome and does not raise.
C2_UnregisteredNeverRaises ==
    (ret.key \in Revisions /\ ~Registered(ret.key)) => ret.kind # "AttributeError"

\* C2 amended: a dispatch, in any of the three phases, for an identifier
\* without a registered check object raises AttributeError (the not-found
\* signal of attribute lookup) and changes neither the registry nor any check
\* object.
C2_UnregisteredRaisesAttributeError ==
    [][\A self \in TestContexts, ph \in Phases, rev \in Revisions :
         (~Registered(rev) /\ Getattr(self, DriverItem(ph, rev)))
            => /\ ret'.kind = "AttributeError"
               /\ objs' = objs
               /\ migration_mappings' = migration_mappings]_vars

C2_Witness ==
    /\ ret.kind = "AttributeError"
    /\ ret.key \in Revisions
    /\ ~Registered(ret.key)
    /\ DOMAIN migration_mappings # {}

\* the operation each phase stands for, as the module docstring gives it
OperationOfPhase(ph) ==
    IF ph = "pre" THEN "setup_upgrade_data"
    ELSE IF ph = "check" THEN "check_upgrade"
    ELSE "check_downgrade"

\* C3: for a registered identifier and any phase, dispatch returns the
\* operation of that phase (pre: setup_upgrade_data, check: check_upgrade,
\* post: check_downgrade) of the check object registered for that identifier.
C3_DispatchSelectsOperation ==
    [][\A self \in TestContexts, ph \in Phases, rev \in Revisions :
         (Registered(rev) /\ Getattr(self, DriverItem(ph, rev)))
            => /\ ret'.kind = "method"
               /\ ret'.name = OperationOfPhase(ph)
               /\ objs'[ret'.obj].revision = rev]_vars

C3_Witness ==
    /\ ret.kind = "method"
    /\ ret.name = "check_downgrade"
    /\ Cardinality(DOMAIN migration_mappings) = 2

\* C4: right after a successful dispatch by test context T the check object
\* it returned a method of has test_case = T, whatever was bound before, and
\* an operation called directly after its dispatch reports through T.
C4_TestCaseBoundBeforeCall ==
    [][/\ \A self \in TestContexts, item \in Items :
            (Getattr(self, item) /\ ret'.kind = "method")
               => objs'[ret'.obj].test_case = self
       /\ (last_call = NoCall /\ last_call' # NoCall)
               => /\ last_call'.by = ret.by
                  /\ last_call'.reporter = ret.by]_vars

C4_Witness ==
    /\ last_call # NoCall
    /\ last_call.reporter = "T2"
    /\ \E o \in Instances : objs[o].test_case = "T1"

\* C5: after any sequence of registrations the registry holds, for every
\* identifier that was registered, exactly the object of the most recent
\* registration of that identifier.
C5_LastRegistrationWins ==
    \A rev \in Revisions :
        IF InstancesOf(rev) = {}
        THEN ~Registered(rev)
        ELSE Registered(rev) /\ migration_mappings[rev] = Latest(InstancesOf(rev))

C5_Witness ==
    \E rev \in DOMAIN migration_mappings :
        /\ Cardinality(InstancesOf(rev)) = 2
        /\ migration_mappings[rev] = Latest(InstancesOf(rev))

\* C6: no dispatch, in any phase and from any test context, creates an
\* instance or changes the registry mapping: the method returned is one of
\* the instance that registration stored, the same for all three phases.
C6_DispatchReusesInstance ==
    [][\A self \in TestContexts, ph \in Phases, rev \in Revisions :
         (Registered(rev) /\ Getattr(self, DriverItem(ph, rev)))
            => /\ ret'.obj = migration_mappings[rev]
               /\ migration_mappings' = migration_mappings
               /\ Len(objs') = Len(objs)]_vars

C6_Witness ==
    /\ ret.kind = "method"
    /\ ret.name = "check_upgrade"
    /\ last_call # NoCall
    /\ ret.obj = migration_mappings[ret.key]

\* C7 as claimed: a lifecycle call leaves every field of the check object
\* other than test_case unchanged, and reads no value that an earlier call
\* stored on the object.
C7_NoStateAcrossCalls ==
    [][/\ \A o \in Instances : objs'[o].valid_share_ids = objs[o].valid_share_ids
       /\ ~last_call'.read_stored]_vars

\* C7 amended: every check object other than ShareReplicationMigrationChecks
\* keeps no state but test_case. ShareReplicationMigrationChecks keeps
\* valid_share_ids: only its setup_upgrade_data assigns it, and only its
\* check_upgrade and check_downgrade read the stored value, leaving it
\* unchanged.
C7_OnlyShareReplicationKeepsIds ==
    [][/\ \A o \in Instances :
            objs'[o].valid_share_ids # objs[o].valid_share_ids
               => /\ objs[o].cls = ShareReplicationMigrationChecks
                  /\ last_call = NoCall
                  /\ last_call'.obj = o
                  /\ last_call'.name = "setup_upgrade_data"
       /\ last_call'.read_stored
               => /\ objs[last_call'.obj].cls = ShareReplicationMigrationChecks
                  /\ last_call'.name \in {"check_upgrade", "check_downgrade"}
                  /\ last_call'.read_ids = objs'[last_call'.obj].valid_share_ids
                  /\ last_call'.read_ids # <<>>]_vars

C7_Witness ==
    /\ last_call.read_stored
    /\ last_call.name = "check_downgrade"

-----------------------------------------------------------------------------
(* Properties of a run of the Migration Driver *)

RECURSIVE EventsOf(_, _)
EventsOf(t, rev) ==
    IF t = <<>> THEN <<>>
    ELSE IF Head(t).rev = rev THEN <<Head(t).ev>> \o EventsOf(Tail(t), rev)
    ELSE EventsOf(Tail(t), rev)

IsPrefix(a, b) == Len(a) <= Len(b) /\ a = SubSeq(b, 1, Len(a))

LifecycleOrder ==
    <<"setup_upgrade_data", "upgrade", "check_upgrade", "downgrade", "check_downgrade">>

\* C8: within one run the lifecycle events of a migration with a registered
\* check object occur only in the order seed, upgrade, verify-upgrade,
\* downgrade, verify-downgrade: check_upgrade is never called before
\* setup_upgrade_data has returned, check_downgrade never before check_upgrade.
C8_LifecycleOrder ==
    \A rev \in Revisions :
        Registered(rev) => IsPrefix(EventsOf(trace, rev), LifecycleOrder)

C8_Witness ==
    /\ drv.run = 2
    /\ Len(trace) = 2 * Len(LifecycleOrder)
    /\ EventsOf(trace, Rev_293fac1130ca) = LifecycleOrder

-----------------------------------------------------------------------------
(* Properties of the cleanup lists *)

RECURSIVE Filter(_, _)
Filter(seq, S) ==
    IF seq = <<>> THEN <<>>
    ELSE IF Head(seq) \in S THEN <<Head(seq)>> \o Filter(Tail(seq), S)
    ELSE Filter(Tail(seq), S)

ReverseSeq(seq) == [i \in 1..Len(seq) |-> seq[Len(seq) + 1 - i]]

Ids(seq) == [i \in 1..Len(seq) |-> seq[i].id]

\* the ids of the resources that were put on the list, oldest first
CreationOrderOf(name) ==
    Filter([i \in 1..Len(created) |-> i], {i \in 1..Len(created) : created[i] = name})

Requested == {del_log[i].id : i \in 1..Len(del_log)}

\* C9: each cleanup list holds its resources newest first, and a
\* clear_resources call issues its delete requests in the reverse of the
\* order in which the resources it deletes were created.
C9_ReverseCreationOrder ==
    /\ \A name \in {"class", "method"} :
          Ids(ListOf(name)) = ReverseSeq(CreationOrderOf(name))
    /\ clr.status # "idle" =>
          Ids(del_log) = Filter(ReverseSeq(CreationOrderOf(clr.list)), Requested)

\* shares A (id 1) and B (id 2) created in that order on one list: B, then A
C9_Witness ==
    /\ clr.status = "returned"
    /\ Len(ListOf(clr.list)) = 2
    /\ \A i \in 1..2 : ListOf(clr.list)[i].type = "share"
    /\ Ids(del_log) = <<2, 1>>

PositionOf(name, id) == CHOOSE i \in 1..Len(ListOf(name)) : ListOf(name)[i].id = id

\* C10: a NotFound or Unauthorized outcome of a delete attempt does not end
\* clear_resources with an exception: the entry is marked deleted and the
\* loop goes on to the entries after it.
C10_NotFoundUnauthorizedPass ==
    \A i \in 1..Len(del_log) :
        del_log[i].exc \in {"NotFound", "Unauthorized"} =>
            LET pos == PositionOf(clr.list, del_log[i].id)
            IN  /\ ListOf(clr.list)[pos].deleted = "True"
                /\ clr.status = "running" => clr.idx > pos
                /\ ~(clr.status = "raised" /\ i = Len(del_log))

C10_Witness ==
    /\ ~conf.suppress_errors_in_cleanup
    /\ clr.status = "returned"
    /\ Len(del_log) = 2
    /\ del_log[1].exc = "Unauthorized"
    /\ del_log[2].exc = "NotFound"

\* C11: a delete attempt that ends in an exception other than NotFound and
\* Unauthorized ends clear_resources with that exception exactly when
\* suppress_errors_in_cleanup is not set; when it is set the error is logged,
\* the entry is marked deleted and the loop goes on.
C11_OtherErrorsFollowFlag ==
    /\ \A i \in 1..Len(del_log) :
          del_log[i].exc = "Exception" =>
              LET pos == PositionOf(clr.list, del_log[i].id)
              IN  IF conf.suppress_errors_in_cleanup
                  THEN /\ del_log[i].logged
                       /\ ListOf(clr.list)[pos].deleted = "True"
                       /\ clr.status # "raised"
                       /\ clr.status = "running" => clr.idx > pos
                       /\ clr.status = "returned" =>
                             \A k \in pos..Len(ListOf(clr.list)) :
                                 ListOf(clr.list)[k].deleted = "True"
                  ELSE /\ ~del_log[i].logged
                       /\ clr.status = "raised"
                       /\ i = Len(del_log)
    /\ clr.status = "raised" =>
          /\ ~conf.suppress_errors_in_cleanup
          /\ del_log # <<>>
          /\ del_log[Len(del_log)].exc = "Exception"

\* suppressed: an error on the newest entry, then the older one is deleted
C11_Witness ==
    /\ conf.suppress_errors_in_cleanup
    /\ clr.status = "returned"
    /\ Len(del_log) = 2
    /\ del_log[1].exc = "Exception"
    /\ del_log[2].exc = "none"

\* C12: every successful call of a creation helper puts exactly one entry,
\* holding the resource's type, its new id and the client used, at the head of
\* the class list if cleanup_in_class and of the method list otherwise; the
\* other list and the entries already present stay as they were.
C12_CreateInsertsOneEntryAtHead ==
    [][\A t \in ResourceTypes, cl \in ClientArgs, c \in BOOLEAN :
          call_create(t, cl, c) =>
              LET target == IF c THEN class_resources ELSE method_resources
                  target_after == IF c THEN class_resources' ELSE method_resources'
                  other == IF c THEN method_resources ELSE class_resources
                  other_after == IF c THEN method_resources' ELSE class_resources'
                  entry == Head(target_after)
              IN  /\ Len(target_after) = Len(target) + 1
                  /\ Tail(target_after) = target
                  /\ other_after = other
                  /\ entry.type = t
                  /\ entry.id \in exists' \ exists
                  /\ entry.client = IF cl = None THEN shares_client ELSE cl
       ]_vars

\* both lists were used, with the default client and with a passed one
C12_Witness ==
    /\ Len(class_resources) = 1
    /\ Len(method_resources) = 1
    /\ class_resources[1].client = isolated_client
    /\ class_resources[1].type = "snapshot"
    /\ method_resources[1].client = shares_client
    /\ method_resources[1].type = "share_network"

\* at the current step of clear_resources a delete request is issued
RequestIssued == ClearStep /\ del_log' # del_log

\* the entries before position n of the list being cleared are marked deleted
MarkedBefore(n) ==
    \A k \in 1..(n - 1) : ListOf(clr.list)[k].deleted = "True"

\* C19 (as stated): while clear_resources runs, a delete request has been
\* issued for a resource only if no newer resource of the same list exists
\* any more.
C19_NewerGoneBeforeOlder ==
    clr.status = "running" =>
        \A i \in 1..Len(del_log) :
            \A k \in 1..(PositionOf(clr.list, del_log[i].id) - 1) :
                ListOf(clr.list)[k].id \notin exists

\* C19 (amended): a delete request for a resource is issued only after every
\* newer entry of the same list has been marked deleted, and an entry is
\* marked deleted while its resource still exists only when its own attempt
\* ended in Unauthorized or in an error that suppress_errors_in_cleanup
\* suppressed; requests follow the list from newest to oldest.
C19_NewerAttemptedBeforeOlder ==
    /\ [](clr.status = "running" => MarkedBefore(clr.idx))
    /\ [][RequestIssued =>
            LET res == ListOf(clr.list)[clr.idx]
                last == del_log'[Len(del_log')]
            IN  /\ MarkedBefore(clr.idx)
                /\ last.id = res.id
                /\ \A i \in 1..Len(del_log) :
                       PositionOf(clr.list, del_log[i].id) < clr.idx
                /\ (ListOf(clr.list)'[clr.idx].deleted = "True" /\ res.id \in exists') =>
                       \/ last.exc = "Unauthorized"
                       \/ last.exc = "Exception" /\ conf.suppress_errors_in_cleanup
       ]_vars
    /\ [][\A id \in exists' : id \in exists \/ \E t \in ResourceTypes, c \in BOOLEAN :
                                                call_create(t, None, c)]_vars

\* the older resource is being deleted while the newer one, whose attempt
\* ended in Unauthorized, still exists
C19_Witness ==
    /\ clr.status = "running"
    /\ Len(del_log) = 2
    /\ del_log[1].exc = "Unauthorized"
    /\ del_log[1].id \in exists
    /\ del_log[2].exc = "none"
    /\ PositionOf(clr.list, del_log[1].id) < PositionOf(clr.list, del_log[2].id)

\* C20: clear_resources drains its list: when it returns normally every entry
\* of the list is marked deleted, a request is issued only for an entry that is
\* not marked, and a mark is never taken back; so a second call with no
\* creation in between issues no delete request.
C20_ClearDrainsList ==
    /\ [][ClearReturn =>
            \A k \in 1..Len(ListOf(clr.list)) : ListOf(clr.list)[k].deleted = "True"]_vars
    /\ [][RequestIssued => ListOf(clr.list)[clr.idx].deleted # "True"]_vars
    /\ [][/\ \A k \in 1..Len(class_resources) :
                class_resources[k].deleted = "True" =>
                    \E j \in 1..Len(class_resources') : class_resources'[j] = class_resources[k]
          /\ \A k \in 1..Len(method_resources) :
                method_resources[k].deleted = "True" =>
                    \E j \in 1..Len(method_resources') : method_resources'[j] = method_resources[k]
       ]_vars
    /\ [](clr.status = "returned" /\ del_log = <<>> =>
            \A k \in 1..Len(ListOf(clr.list)) :
                \/ ListOf(clr.list)[k].deleted = "True"
                \/ ListOf(clr.list)[k].deleted = "no key")

\* a second call on a drained list of two entries returned without a request
C20_Witness ==
    /\ clr.status = "returned"
    /\ del_log = <<>>
    /\ Len(ListOf(clr.list)) = 2
    /\ \A k \in 1..2 : ListOf(clr.list)[k].deleted = "True"

\* create_shares has been called and its locals exist
InCreateShares == cs.status # "idle"

\* C13: for each entry of create_shares at most 1 + share_creation_retry_number
\* creation requests are issued, and a build error or timeout of the wait on an
\* entry already re-created share_creation_retry_number times ends the call
\* with that same exception and without a further request.
C13_RetriesBounded ==
    /\ [](InCreateShares =>
            \A k \in 1..Len(cs.share_data_list) :
                /\ cs.requests[k] <= 1 + conf.share_creation_retry_number
                /\ k <= Len(cs.data) => Len(cs.data[k].made) <= cs.requests[k])
    /\ [][\A o \in BuildFailures, r \in CreateOutcomes :
            (WaitStep(o, r) /\ cs.data[cs.i].cnt = conf.share_creation_retry_number) =>
                /\ cs'.status = "raised"
                /\ cs'.exc = o
                /\ created' = created
                /\ cs'.requests = cs.requests
       ]_vars

\* the one allowed re-creation was used and the wait failed again
C13_Witness ==
    /\ InCreateShares
    /\ cs.status = "raised"
    /\ cs.exc = TimeoutException
    /\ conf.share_creation_retry_number = 1
    /\ Len(cs.data) = 2
    /\ cs.requests[cs.i] = 2

\* the share held by an element of the result
ShareOf(element) == IF cs.with_resp THEN element[2] ELSE element

\* C14: when create_shares returns, the result has one element per input
\* entry, in input order, and each returned share is the last one created for
\* its entry and one whose wait for 'available' succeeded; a call that cannot
\* get every entry available does not return.
C14_ResultIsLatestAvailable ==
    (InCreateShares /\ cs.status = "returned") =>
        /\ Len(cs.result) = Len(cs.share_data_list)
        /\ Len(cs.data) = Len(cs.share_data_list)
        /\ \A k \in 1..Len(cs.result) :
              LET made == cs.data[k].made
              IN  /\ ShareOf(cs.result[k]) = made[Len(made)]
                  /\ ShareOf(cs.result[k]) \in cs.waited
                  /\ \A j \in 1..Len(cs.result) :
                        j < k => made[1] > cs.data[j].made[1]

\* two entries returned, the first of them after a re-creation
C14_Witness ==
    /\ InCreateShares
    /\ cs.status = "returned"
    /\ Len(cs.result) = 2
    /\ Len(cs.data[1].made) = 2
    /\ Len(cs.data[2].made) = 1
    /\ cs.with_resp

\* the workers inside the find-or-create section of provide_share_network
InSection == {w \in Workers : workers[w].pc \notin {"idle", "returned", "raised"}}

\* C15: the workers' find-or-create sections exclude each other, and when no
\* worker's client carries a share network id the workers together create at
\* most one service network and at most one share network, and all that
\* return, return the same share network id.
C15_NoDuplicateInfrastructure ==
    /\ Cardinality(InSection) <= 1
    /\ \A w \in InSection : lock = w
    /\ (\A w \in Workers : workers[w].client = NoId) =>
          /\ backend.created_networks <= 1
          /\ backend.created_share_networks <= 1
          /\ \A v, w \in Workers :
                (workers[v].pc = "returned" /\ workers[w].pc = "returned") =>
                    workers[v].result = workers[w].result

\* one worker created the network and the share network, another found them
C15_Witness ==
    /\ conf.multitenancy_enabled
    /\ \A w \in Workers : workers[w].client = NoId
    /\ workers[1].pc = "returned"
    /\ workers[2].pc = "returned"
    /\ workers[1].result = workers[2].result
    /\ workers[1].result # NoId
    /\ backend.created_networks = 1
    /\ backend.created_share_networks = 1

-----------------------------------------------------------------------------
(* Check classes against the database (SpecChecks) *)

\* C16. For every registered check object, check_upgrade called right after
\* setup_upgrade_data on the unmigrated schema, the upgrade not applied, does
\* not pass: it ends in an assertion failure or an error.
C16_CheckFailsOnUnmigrated ==
    (run.step = "checked" /\ run.on = "unmigrated") => run.outcome # "passed"

\* child table, referencing column, parent table
References ==
    { <<"share_instances", "share_id", "shares">>,
      <<"share_instance_export_locations", "share_instance_id", "share_instances">>,
      <<"share_instance_access_map", "share_instance_id", "share_instances">>,
      <<"share_instance_access_map", "access_id", "share_access_map">>,
      <<"share_access_map", "share_id", "shares">>,
      <<"share_servers", "share_network_id", "share_networks">>,
      <<"network_allocations", "share_server_id", "share_servers">>,
      <<"share_snapshots", "share_id", "shares">>,
      <<"share_snapshot_instances", "snapshot_id", "share_snapshots">>,
      <<"share_snapshot_instances", "share_instance_id", "share_instances">>,
      <<"shares", "share_type_id", "share_types">> }

\* C17. Within one seed call, every row that references a parent row is
\* inserted only after that parent row has been inserted: each statement of
\* setup_upgrade_data that gives a referencing column a value is preceded by
\* the statement that inserted the row with that id into the parent table.
C17_ParentsInsertedFirst ==
    run.step = "seeded" =>
        \A i \in 1..Len(engine.log) : \A ref \in References :
            (engine.log[i].table = ref[1] /\ ref[2] \in DOMAIN engine.log[i].row) =>
                \E j \in 1..(i - 1) :
                    /\ engine.log[j].table = ref[3]
                    /\ engine.log[j].row.id = engine.log[i].row[ref[2]]

\* a seed call that inserted a row with two parents, and one that inserted
\* shares that have a share type
C17_Witness ==
    /\ run.step = "seeded"
    /\ run.rev \in {"eb6d5544cbbd", "48a7beae3117"}
    /\ \E i \in 1..Len(engine.log) :
          engine.log[i].table \in {"share_snapshot_instances", "shares"}

\* C18. For 1f0bd302c1a6, the services seeded with az1, az1, az2: the upgrade
\* check passes only if every row of availability_zones has a UUID-shaped id
\* and a name in {az1, az2}, and the downgrade check passes only if every
\* service row's availability_zone is in {az1, az2}.
C18_AvailabilityZoneChecks ==
    (run.rev = "1f0bd302c1a6" /\ run.outcome = "passed") =>
        /\ run.step = "checked" =>
              \A i \in 1..Len(engine.rows["availability_zones"]) :
                  /\ engine.rows["availability_zones"][i].id \in {Uuid(n) : n \in 1..6}
                  /\ engine.rows["availability_zones"][i].name \in {"az1", "az2"}
        /\ run.step = "checked_downgrade" =>
              \A i \in 1..Len(engine.rows["services"]) :
                  engine.rows["services"][i].availability_zone \in {"az1", "az2"}

\* both checks passed, the upgrade check on a table of zones that is not
\* empty: the downgrade is made only after the upgrade check has passed
C18_Witness ==
    /\ run.rev = "1f0bd302c1a6"
    /\ run.step = "checked_downgrade"
    /\ run.outcome = "passed"
    /\ Len(engine.rows["services"]) = 3

-----------------------------------------------------------------------------
(* provide_share_network, branch by branch (SpecNet) *)

\* the worker's call did not take the find-or-create path
ShortPath(w) ==
    /\ workers[w].pc \in {"return", "returned"}
    /\ ~conf.multitenancy_enabled \/ workers[w].client # NoId

Matches(sn, id, net_id, subnet_id) ==
    /\ sn.id = id
    /\ sn.neutron_net_id = net_id
    /\ sn.neutron_subnet_id = subnet_id

\* the positions of the share networks that refer to what the worker selected
Suitable(w) ==
    {i \in 1..Len(backend.share_networks) :
        Matches(backend.share_networks[i], backend.share_networks[i].id,
                workers[w].net_id, workers[w].subnet_id)}

\* C22: on the find-or-create path the id returned is that of a share
\* network whose neutron_net_id and neutron_subnet_id are the selected network
\* and subnet, the selected subnet belongs to the selected network, a share
\* network is created only when none refers to the selected pair and a
\* network only when no network of the service with a subnet is listed.
C22_FindOrCreate ==
    /\ [](\A w \in Workers :
            (workers[w].pc = "returned" /\ conf.multitenancy_enabled
                /\ workers[w].client = NoId) =>
                /\ \E i \in Suitable(w) :
                      backend.share_networks[i].id = workers[w].result
                /\ \E n \in 1..Len(backend.networks) :
                      /\ backend.networks[n].id = workers[w].net_id
                      /\ \E k \in 1..Len(backend.networks[n].subnets) :
                            backend.networks[n].subnets[k] = workers[w].subnet_id)
    /\ [][\A w \in Workers :
            /\ CreateShareNetwork(w) => Suitable(w) = {}
            /\ CreateNetwork(w) =>
                  ~ \E n \in 1..Len(backend.networks) :
                        /\ backend.networks[n].service
                        /\ Len(backend.networks[n].subnets) > 0]_vars

\* the second of two suitable networks was selected and the share network
\* that refers to its first subnet was reused, not the first one listed
C22_Witness ==
    \E w \in Workers :
        /\ workers[w].pc = "returned"
        /\ conf.multitenancy_enabled
        /\ workers[w].client = NoId
        /\ workers[w].net_id = 2
        /\ workers[w].result = 2
        /\ backend.created_share_networks = 0

-----------------------------------------------------------------------------
(* create_shares: termination, tracking, validation (SpecShares) *)

Running == cs.status \in {"creating", "waiting"}

\* C23: create_shares always ends, by returning or raising, when every
\* request and every wait returns or raises; wait_for_share_status is called
\* at most 1 + share_creation_retry_number times for each entry, and the body
\* of the while loop runs at most 1 + share_creation_retry_number times.
C23_CreateSharesTerminates ==
    /\ Running ~> cs.status \in {"returned", "raised"}
    /\ [](InCreateShares =>
            /\ cs.rounds <= 1 + conf.share_creation_retry_number
            /\ \A k \in 1..Len(cs.share_data_list) :
                  cs.waits[k] <= 1 + conf.share_creation_retry_number)

\* the loop ran as often as it can: the wait after the last allowed
\* re-creation succeeded, and the call returned
C23_Witness ==
    /\ cs.status = "returned"
    /\ conf.share_creation_retry_number = MaxRetry
    /\ cs.rounds = 1 + MaxRetry
    /\ \E k \in 1..Len(cs.data) : cs.waits[k] = 1 + MaxRetry

\* C24: while create_shares runs and after it has returned or raised, every
\* share made for one of its entries, a failed and replaced one included,
\* exists and has an entry not marked deleted on the class list if the
\* entry's cleanup_in_class is true and on the method list otherwise; no
\* other share was made.
C24_EveryShareTracked ==
    InCreateShares =>
        /\ \A k \in 1..Len(cs.data) : \A j \in 1..Len(cs.data[k].made) :
              LET id == cs.data[k].made[j]
                  list == IF cs.share_data_list[k].cleanup_in_class
                          THEN class_resources ELSE method_resources
              IN  /\ id \in exists
                  /\ \E i \in 1..Len(list) :
                        /\ list[i].id = id
                        /\ list[i].type = "share"
                        /\ list[i].deleted # "True"
        /\ Cardinality(exists) =
              Cardinality(UNION {{cs.data[k].made[j] : j \in 1..Len(cs.data[k].made)} :
                                    k \in 1..Len(cs.data)})

\* the call raised after a share of an entry that cleans up per test
\* failed and was replaced
C24_Witness ==
    /\ cs.status = "raised"
    /\ \E k \in 1..Len(cs.data) :
          /\ ~cs.share_data_list[k].cleanup_in_class
          /\ Len(cs.data[k].made) = 2
          /\ Len(method_resources) >= 2

\* the element is not a dict, or has a key other than 'args' and 'kwargs'
Invalid(d) == ~d.dict \/ ~ (d.keys \subseteq {"args", "kwargs"})

\* the positions, counted from 1, of the invalid elements
InvalidAt == {k \in 1..Len(cs.share_data_list) : Invalid(cs.share_data_list[k])}

\* C27: when the element at index k, counted from 0, is the first invalid
\* one, create_shares never waits and never returns; once the k elements
\* before it have been requested it raises TempestException without a further
\* request, each of the k shares being on a cleanup list; share_data_list
\* stays as the caller passed it.
C27_ValidationInterleaved ==
    /\ []((InCreateShares /\ InvalidAt # {}) =>
            LET first == CHOOSE k \in InvalidAt : \A j \in InvalidAt : k <= j
            IN  /\ cs.status \in {"creating", "raised"}
                /\ cs.i <= first
                /\ \A k \in 1..Len(cs.share_data_list) : cs.waits[k] = 0
                /\ cs.waited = {}
                /\ (cs.status = "raised" /\ cs.exc = "TempestException") =>
                      /\ cs.i = first
                      /\ Len(created) = first - 1
                      /\ \A k \in 1..Len(cs.share_data_list) :
                            cs.requests[k] = IF k < first THEN 1 ELSE 0
                      /\ Len(class_resources) + Len(method_resources) = first - 1)
    /\ [][(cs.status = "creating" /\ InvalidAt # {} /\ cs.i \in InvalidAt) =>
            /\ cs'.status = "raised"
            /\ cs'.exc = "TempestException"
            /\ created' = created]_vars
    /\ [][InCreateShares => cs'.share_data_list = cs.share_data_list]_vars

\* the second element has a third key: one share was requested, then the
\* call raised
C27_Witness ==
    /\ cs.status = "raised"
    /\ cs.exc = "TempestException"
    /\ Len(cs.share_data_list) = 2
    /\ cs.share_data_list[2].dict
    /\ cs.i = 2
    /\ Len(created) = 1

-----------------------------------------------------------------------------
(* clear_resources after a re-raised error (SpecCleanup) *)

\* the entry that the running call of clear_resources is at
Current == ListOf(clr.list)[clr.idx]

\* C25: a step of clear_resources that re-raises leaves its entry with
\* "deleted" False, and the entries after it and the resources they name as
\* they were, no request having been made for them; a step of a later call
\* that finds an entry not marked deleted requests its deletion, and a step
\* that finds an entry marked deleted requests nothing.
C25_ReraiseLeavesEntryForRetry ==
    /\ [][(ClearStep /\ clr'.status = "raised") =>
            /\ ~conf.suppress_errors_in_cleanup
            /\ Current'.deleted = "False"
            /\ Current'.id = Current.id
            /\ del_log'[Len(del_log')].id = Current.id
            /\ \A j \in (clr.idx + 1)..Len(ListOf(clr.list)) :
                  /\ ListOf(clr.list)'[j] = ListOf(clr.list)[j]
                  /\ ListOf(clr.list)[j].id \in exists =>
                        ListOf(clr.list)[j].id \in exists'
                  /\ \A n \in 1..Len(del_log') :
                        del_log'[n].id # ListOf(clr.list)[j].id]_vars
    /\ [][(ClearStep /\ Current.deleted = "False") =>
            /\ Len(del_log') = Len(del_log) + 1
            /\ del_log'[Len(del_log')].id = Current.id]_vars
    /\ [][(ClearStep /\ Current.deleted = "True") =>
            /\ del_log' = del_log
            /\ exists' = exists
            /\ clr'.status = "running"]_vars

\* errors are not suppressed and the later entry of the list is the only
\* one this call made a request for: the call before marked the first entry
\* and raised at the second, this call skipped the first and deleted the second
C25_Witness ==
    /\ ~conf.suppress_errors_in_cleanup
    /\ clr.status = "returned"
    /\ Len(ListOf(clr.list)) = 2
    /\ ListOf(clr.list)[1].deleted = "True"
    /\ ListOf(clr.list)[2].deleted = "True"
    /\ Len(del_log) = 1
    /\ del_log[1].id = ListOf(clr.list)[2].id

-----------------------------------------------------------------------------
(* Teardown order (SpecTeardown) *)

\* C26. In the cleanups of the test and in tearDownClass alike, the
\* resources on a list that were created with the isolated credentials get
\* their delete requests before the isolated credentials on the list of the
\* same path are cleared: no delete request of the isolated client follows
\* the clearing of the credentials of its own path.
C26_ResourcesBeforeCreds ==
    \A i, j \in 1..Len(td.log) :
        (i < j /\ td.log[i].op = "clear_creds" /\ td.log[j].op = "delete"
            /\ td.log[j].client = isolated_client) =>
            td.log[i].list # td.log[j].list

-----------------------------------------------------------------------------
(* Dispatch: what it leaves alone, and which names it takes (Spec, SpecNames) *)

\* C28: a dispatch that ends in AttributeError, or in normal attribute
\* lookup, leaves the registry and every check object as they were; a
\* dispatch that returns a method for identifier m leaves the registry and
\* every check object but the one registered for m as they were, and of that
\* one it changes test_case only.
C28_DispatchFrame ==
    [][\A self \in TestContexts, item \in Items :
         Getattr(self, item) =>
            /\ migration_mappings' = migration_mappings
            /\ Len(objs') = Len(objs)
            /\ ret'.kind # "method" => objs' = objs
            /\ ret'.kind = "method" =>
                  /\ ret'.key \in DOMAIN migration_mappings
                  /\ \A o \in Instances :
                        IF o = migration_mappings[ret'.key]
                        THEN objs'[o] = [objs[o] EXCEPT !.test_case = self]
                        ELSE objs'[o] = objs[o]]_vars

\* a dispatch for an identifier without check object, made when the two
\* check objects that exist are bound to different test contexts
C28_Witness ==
    /\ ret.kind = "AttributeError"
    /\ ret.key \in Revisions
    /\ ~Registered(ret.key)
    /\ \E o, q \in Instances :
          /\ objs[o].test_case = "T1"
          /\ objs[q].test_case = "T2"

\* the names asked for: those of the revisions and the other ones, and
\* those for the identifier with '_'
AllItems == Items \cup {DriverItem(ph, Rev_with_underscore) : ph \in Phases}

\* splitting the name on '_' gives more than two parts, the first empty and
\* the second one of pre, check, post
IsDispatchRequest(item) ==
    /\ Len(Split(item)) > 2
    /\ Split(item)[1] = <<>>
    /\ Split(item)[2] \in {<<"pre">>, <<"check">>, <<"post">>}

\* C29: __getattr__ looks into the registry exactly for the names that are
\* dispatch requests, under the last part of the name only; any other name
\* gets the outcome of normal attribute lookup and no check object is
\* changed; no method of a check object registered under an identifier
\* that contains '_' is ever returned.
C29_DispatchNames ==
    /\ [][\A self \in TestContexts, item \in AllItems :
            Getattr(self, item) =>
               IF IsDispatchRequest(item)
               THEN /\ ret'.key = Split(item)[Len(Split(item))]
                    /\ IF ret'.key \in DOMAIN migration_mappings
                       THEN /\ ret'.kind = "method"
                            /\ ret'.obj = migration_mappings[ret'.key]
                       ELSE ret'.kind = "AttributeError"
               ELSE /\ ret'.kind \in {"attribute", "AttributeError"}
                    /\ ret'.key = item
                    /\ objs' = objs]_vars
    /\ [](ret.kind = "method" =>
            \A n \in 1..Len(objs[ret.obj].revision) :
                objs[ret.obj].revision[n] # "_")

\* the identifier with '_' is registered and a dispatch has looked for its
\* last part, which is not registered
C29_Witness ==
    /\ Rev_with_underscore \in DOMAIN migration_mappings
    /\ ret.kind = "AttributeError"
    /\ ret.key = Rev_293fac1130ca
    /\ Rev_293fac1130ca \notin DOMAIN migration_mappings

-----------------------------------------------------------------------------
(* The downgrade checks that count rows (SpecChecks)                        *)

RowCounting == {"5155c7077f99", "fdfb668d19e1", "493eaffd79e1"}

\* C30: for 5155c7077f99, fdfb668d19e1 and 493eaffd79e1, each run alone on
\* empty tables, setup_upgrade_data leaves two network allocations and a
\* passed check_upgrade three; check_downgrade passes if and only if
\* check_upgrade ran between the upgrade and the downgrade, and when it did
\* not run there are fewer rows than ids declared.
C30_DowngradeCheckNeedsUpgradeCheck ==
    run.rev \in RowCounting =>
       /\ run.step = "seeded" => Len(engine.rows["network_allocations"]) = 2
       /\ run.step = "checked" /\ run.outcome = "passed" =>
              Len(engine.rows["network_allocations"]) = 3
       /\ run.step = "checked_downgrade" =>
              /\ run.outcome = "passed" <=> run.on = "upgraded"
              /\ run.on # "upgraded" => Len(engine.rows["network_allocations"]) < 3

\* check_downgrade of 5155c7077f99 has failed in a run that made the
\* upgrade and the downgrade without calling check_upgrade
C30_Witness ==
    /\ run.rev = "5155c7077f99"
    /\ run.step = "checked_downgrade"
    /\ run.on = "None"
    /\ run.outcome = "failed"
    /\ Len(engine.rows["network_allocations"]) = 2

====
